---- MODULE Spec2Model ----
(***************************************************************************)
(* A model of dune-extract: the DUNE.DAT container (dat_file.rs), the HSQ  *)
(* decoder (unhsq.rs), the palette delta loop and the sprite drawing       *)
(* routines (sprite.rs, pal.rs, frame.rs).                                 *)
(*                                                                         *)
(* Bytes are naturals 0..255, byte strings are sequences of bytes.  A      *)
(* Rust panic (an unwrap on Err, an index out of bounds) ends the process: *)
(* it is modelled as the terminal outcome "abort", distinct from an Err    *)
(* value returned to the caller.                                           *)
(***************************************************************************)
EXTENDS Integers, Sequences, FiniteSets, TLC

VARIABLES
    hdr,        \* SpecDetect: the byte slice handed to is_compressed
    cls,        \* SpecDetect: its classification
    file,       \* the bytes of the container file
    pc,         \* "closed", "open", "openfail", "unhsq" (inside the decoder), "abort"
    entries,    \* DatFile.entries
    fpos,       \* the stream position of DatFile.reader
    data,       \* read/read_raw: the bytes read from the file
    result,     \* the outcome of the last operation
    rd,         \* unhsq: the Reader (queue, cursor position over data[6..])
    w,          \* unhsq: the output slice (unpacked_data)
    w_ofs,      \* unhsq: the write position
    pdata,      \* SpriteSheet.data, the bytes apply_palette_update reads
    ppos,       \* the position of its cursor r
    pal,        \* the Pal it updates: 768 bytes, index 0..767
    ppc,        \* "start", "loop", "ok", "err" (Err returned), "abort" (panic)
    prec,       \* the (index, count) record read last
    sprite,     \* a Sprite parsed by new_from_slice
    frame,      \* the Frame drawn into: [width, height, data]
    dlast,      \* the last call on the frame, its arguments and the pixels before it
    dops,       \* the number of calls made on the frame
    bnames,     \* extract_all: entry_names, the names collected from the table
    bidx,       \* the number of names the loop of extract_all has taken
    bpc,        \* "idle", "run", "ok", "err" (Err returned), "abort" (panic)
    blog,       \* the calls of extract made so far: [name, kind]
    sdata,      \* extract_sprites: data, the resource read from the container
    spc,        \* "idle", "start", "pal", "sprites", "ok", "err" (Err returned), "abort"
    soffs,      \* sub_resource_offsets
    sidx,       \* the number of sub-resources the last loop has taken
    slog,       \* what was done with each of them: "drawn" or "skipped"
    spal,       \* the palette the frames are written with
    sret,       \* the value extract_sprites returned
    ssheet,     \* the outcome of SpriteSheet::new on the same data
    qsrc,       \* SpecBits: the bytes under the cursor of a Reader
    qrd,        \* the Reader: [queue, pos]
    qn,         \* the number of read_bit calls that have returned
    qfrom,      \* the cursor position before the last call of read_bit that moved it
    qlast,      \* the last call on the Reader: [op, v, moved]
    qpc,        \* "idle", "run", "abort" (an unwrap panicked)
    usprite,    \* SpecRle: the Sprite whose data unrle decodes
    uspos,      \* the position of rle_src
    ubuf,       \* buf, the Vec under rle_dst
    udpos,      \* the position of rle_dst
    urow,       \* the number of rows the for loop has finished
    ux,         \* x, the bytes counted for the current row
    ustarts,    \* the position of rle_dst at the start of each row begun so far
    upc,        \* "idle", "start", "run", "ok", "err" (Err returned)
    ualt,       \* the outcome of decompress_4bpp_rle on the same data
    estream,    \* SpecPalEq: a palette delta stream
    estart,     \* the palette before the stream is applied
    eres,       \* what each of the three palette loops made of it
    gbytes,     \* SpecGeom: the four header bytes of a sprite
    gres        \* the bit depth and the pitch of the sprite parsed from them

detVars == <<hdr, cls>>
datVars == <<file, pc, entries, fpos, data, result, rd, w, w_ofs>>
palVars == <<pdata, ppos, pal, ppc, prec>>
drawVars == <<sprite, frame, dlast, dops>>
batchVars == <<bnames, bidx, bpc, blog>>
sheetVars == <<sdata, spc, soffs, sidx, slog, spal, sret, ssheet>>
bitVars == <<qsrc, qrd, qn, qfrom, qlast, qpc>>
rleVars == <<usprite, uspos, ubuf, udpos, urow, ux, ustarts, upc, ualt>>
eqVars == <<estream, estart, eres>>
geomVars == <<gbytes, gres>>
vars == <<hdr, cls, file, pc, entries, fpos, data, result, rd, w, w_ofs,
          pdata, ppos, pal, ppc, prec, sprite, frame, dlast, dops,
          bnames, bidx, bpc, blog,
          sdata, spc, soffs, sidx, slog, spal, sret, ssheet,
          qsrc, qrd, qn, qfrom, qlast, qpc,
          usprite, uspos, ubuf, udpos, urow, ux, ustarts, upc, ualt,
          estream, estart, eres,
          gbytes, gres>>

----------------------------------------------------------------------------
(* Machine integers *)

U8 == 256
U16 == 65536

\* u8::wrapping_add
wrapping_add(a, b) == (a + b) % U8

\* u16::from_le_bytes
from_le_bytes(lo, hi) == lo + 256 * hi

\* header.iter().take(n): the first n items, or all of them when fewer
take(s, n) == SubSeq(s, 1, IF Len(s) < n THEN Len(s) ELSE n)

\* Iterator::fold(0, |acc, &x| acc.wrapping_add(x))
RECURSIVE fold_wrapping_add(_, _)
fold_wrapping_add(acc, s) ==
    IF s = <<>> THEN acc
    ELSE fold_wrapping_add(wrapping_add(acc, Head(s)), Tail(s))

----------------------------------------------------------------------------
(* dat_file.rs: compression detection *)

SignatureLen == 6
SignatureSum == 171

\* is_compressed with the take(6) forgotten: the checksum runs over the whole slice
is_compressed_sum_all(header) ==
    IF Len(header) < SignatureLen THEN FALSE
    ELSE fold_wrapping_add(0, header) = SignatureSum /\ header[3] = 0

\* is_compressed with the test of the zero byte forgotten
is_compressed_no_zero(header) ==
    IF Len(header) < SignatureLen THEN FALSE
    ELSE fold_wrapping_add(0, take(header, SignatureLen)) = SignatureSum

\* fn is_compressed(header: &[u8]) -> bool
is_compressed(header) ==
    IF Len(header) < SignatureLen THEN FALSE
    ELSE LET checksum == fold_wrapping_add(0, take(header, SignatureLen))
         IN  checksum = SignatureSum /\ header[3] = 0

----------------------------------------------------------------------------
(* bytes_ext.rs: ReadBytesExt over a byte string s and a 0-based position. *)
(* A read returns [ok, v, pos]; a failed read_exact leaves the position at *)
(* the end of the input.                                                   *)

Min(a, b) == IF a < b THEN a ELSE b
Max(a, b) == IF a > b THEN a ELSE b

read_fail(s, pos) == [ok |-> FALSE, v |-> 0, pos |-> Max(pos, Len(s))]

\* fn read_u8(&mut self) -> std::io::Result<u8>
read_u8(s, pos) ==
    IF pos + 1 > Len(s) THEN read_fail(s, pos)
    ELSE [ok |-> TRUE, v |-> s[pos + 1], pos |-> pos + 1]

\* fn read_le_u16(&mut self) -> std::io::Result<u16>
read_le_u16(s, pos) ==
    IF pos + 2 > Len(s) THEN read_fail(s, pos)
    ELSE [ok |-> TRUE, v |-> from_le_bytes(s[pos + 1], s[pos + 2]), pos |-> pos + 2]

\* fn read_le_u32(&mut self) -> std::io::Result<u32>
read_le_u32(s, pos) ==
    IF pos + 4 > Len(s) THEN read_fail(s, pos)
    ELSE [ok |-> TRUE,
          v |-> s[pos + 1] + 256 * s[pos + 2] + 65536 * s[pos + 3]
                + 16777216 * s[pos + 4],
          pos |-> pos + 4]

\* the while loop of read_fixed_str: bytes_read, found_end_of_string and the
\* String s are the loop's variables
RECURSIVE read_fixed_str_loop(_, _, _, _, _, _)
read_fixed_str_loop(s, pos, len, bytes_read, found_end_of_string, str) ==
    IF ~(bytes_read < len) THEN [ok |-> TRUE, v |-> str, pos |-> pos]
    ELSE LET c == read_u8(s, pos)
         IN  IF ~c.ok THEN [ok |-> FALSE, v |-> <<>>, pos |-> c.pos]
             ELSE IF found_end_of_string
                  THEN read_fixed_str_loop(s, c.pos, len, bytes_read + 1, TRUE, str)
             ELSE IF c.v = 0
                  THEN read_fixed_str_loop(s, c.pos, len, bytes_read + 1, TRUE, str)
             ELSE read_fixed_str_loop(s, c.pos, len, bytes_read + 1, FALSE,
                                      Append(str, c.v))

\* fn read_fixed_str(&mut self, len: usize) -> std::io::Result<String>
\* (a String is modelled as the sequence of its chars' code points)
read_fixed_str(s, pos, len) == read_fixed_str_loop(s, pos, len, 0, FALSE, <<>>)

----------------------------------------------------------------------------
(* dat_file.rs: DatFile::open *)

NameLen == 16

\* one iteration of the for loop of open, from the reader position pos:
\* [ok, brk, entry, pos]
open_entry(f, pos) ==
    LET name == read_fixed_str(f, pos, NameLen)
        size == read_le_u32(f, name.pos)
        offset == read_le_u32(f, size.pos)
        skip == read_u8(f, offset.pos)      \* _ = reader.read_u8(): result dropped
        none == [name |-> <<>>, offset |-> 0, size |-> 0]
    IN  IF ~name.ok THEN [ok |-> FALSE, brk |-> FALSE, entry |-> none, pos |-> name.pos]
        ELSE IF ~size.ok
             THEN [ok |-> FALSE, brk |-> FALSE, entry |-> none, pos |-> size.pos]
        ELSE IF ~offset.ok
             THEN [ok |-> FALSE, brk |-> FALSE, entry |-> none, pos |-> offset.pos]
        ELSE [ok |-> TRUE,
              brk |-> name.v = <<>>,
              entry |-> [name |-> name.v, offset |-> offset.v, size |-> size.v],
              pos |-> skip.pos]

\* open_loop that keeps an entry with an empty name and goes on
RECURSIVE open_loop_no_break(_, _, _, _)
open_loop_no_break(f, pos, remaining, es) ==
    IF remaining = 0 THEN [ok |-> TRUE, entries |-> es, pos |-> pos]
    ELSE LET e == open_entry(f, pos)
         IN  IF ~e.ok THEN [ok |-> FALSE, entries |-> <<>>, pos |-> e.pos]
             ELSE open_loop_no_break(f, e.pos, remaining - 1, Append(es, e.entry))

\* for _ in 0..entry_count { ... }: [ok, entries, pos]
RECURSIVE open_loop(_, _, _, _)
open_loop(f, pos, remaining, es) ==
    IF remaining = 0 THEN [ok |-> TRUE, entries |-> es, pos |-> pos]
    ELSE LET e == open_entry(f, pos)
         IN  IF ~e.ok THEN [ok |-> FALSE, entries |-> <<>>, pos |-> e.pos]
             ELSE IF e.brk THEN [ok |-> TRUE, entries |-> es, pos |-> e.pos]
             ELSE open_loop(f, e.pos, remaining - 1, Append(es, e.entry))

\* pub fn open(path) -> Result<DatFile, Error>, once File::open succeeded
open(f) ==
    LET entry_count == read_le_u16(f, 0)
    IN  IF ~entry_count.ok THEN [ok |-> FALSE, entries |-> <<>>, pos |-> entry_count.pos]
        ELSE open_loop(f, entry_count.pos, entry_count.v, <<>>)

----------------------------------------------------------------------------
(* dat_file.rs: DatFile::read_raw *)

\* a lookup that takes the last entry of the name instead of the first
find_last(es, name) ==
    IF \E i \in 1..Len(es) : es[i].name = name
    THEN CHOOSE i \in 1..Len(es) :
            /\ es[i].name = name
            /\ \A j \in (i + 1)..Len(es) : es[j].name # name
    ELSE 0

\* self.entries.iter().find(|&e| e.name == name): the index of the first
\* match, 0 when there is none
find(es, name) ==
    IF \E i \in 1..Len(es) : es[i].name = name
    THEN CHOOSE i \in 1..Len(es) :
            /\ es[i].name = name
            /\ \A j \in 1..(i - 1) : es[j].name # name
    ELSE 0

\* read_exact taken for read: a short read returns what was there
seek_read_short(f, offset, size) ==
    IF offset + size > Len(f) /\ size > 0
    THEN [ok |-> TRUE,
          v |-> [i \in 1..(Max(offset, Len(f)) - offset) |-> f[offset + i]],
          pos |-> Max(offset, Len(f))]
    ELSE [ok |-> TRUE,
          v |-> [i \in 1..size |-> f[offset + i]],
          pos |-> offset + size]

\* seek(SeekFrom::Start(offset)) then read_exact into vec![0; size]:
\* [ok, v, pos]
seek_read_exact(f, offset, size) ==
    IF offset + size > Len(f) /\ size > 0
    THEN [ok |-> FALSE, v |-> <<>>, pos |-> Max(offset, Len(f))]
    ELSE [ok |-> TRUE,
          v |-> [i \in 1..size |-> f[offset + i]],
          pos |-> offset + size]

\* pub fn read_raw(&mut self, name: &str) -> Result<Vec<u8>, Error>:
\* [kind, v, pos] with kind "ok", "EntryNotFound" or "IOError"
read_raw(f, es, pos, name) ==
    LET i == find(es, name)
    IN  IF i = 0 THEN [kind |-> "EntryNotFound", v |-> <<>>, pos |-> pos]
        ELSE LET r == seek_read_exact(f, es[i].offset, es[i].size)
             IN  [kind |-> IF r.ok THEN "ok" ELSE "IOError", v |-> r.v, pos |-> r.pos]

----------------------------------------------------------------------------
(* unhsq.rs: the Reader.  A Reader is [queue, pos] over the payload src;   *)
(* every read below is unwrapped by the code, so ok = FALSE is a panic.    *)

QueueSentinel == 32768

\* a read_bit that refills the queue with word >> 1 alone
read_bit_no_sentinel(src, r) ==
    LET bit == r.queue % 2
        queue == r.queue \div 2
    IN  IF queue = 0
        THEN LET word == read_le_u16(src, r.pos)
             IN  [ok |-> word.ok,
                  bit |-> word.v % 2,
                  queue |-> word.v \div 2,
                  pos |-> word.pos]
        ELSE [ok |-> TRUE, bit |-> bit, queue |-> queue, pos |-> r.pos]

\* pub fn read_bit(&mut self) -> bool: [ok, bit, queue, pos]
\* (0x8000 | (queue >> 1) is a sum: queue >> 1 has bit 15 clear)
read_bit(src, r) ==
    LET bit == r.queue % 2
        queue == r.queue \div 2
    IN  IF queue = 0
        THEN LET word == read_le_u16(src, r.pos)
             IN  [ok |-> word.ok,
                  bit |-> word.v % 2,
                  queue |-> QueueSentinel + (word.v \div 2),
                  pos |-> word.pos]
        ELSE [ok |-> TRUE, bit |-> bit, queue |-> queue, pos |-> r.pos]

\* a cmd_head that takes the first of the two length bits as the low bit
cmd_head_low_first(src, r) ==
    LET b1 == read_bit(src, r)
        b2 == read_bit(src, b1)
        b3 == read_bit(src, b2)
        b4 == read_bit(src, b3)
        at(b) == [queue |-> b.queue, pos |-> b.pos]
    IN  IF ~b1.ok THEN [kind |-> "eof", r |-> at(b1), count |-> 0]
        ELSE IF b1.bit = 1 THEN [kind |-> "literal", r |-> at(b1), count |-> 0]
        ELSE IF ~b2.ok THEN [kind |-> "eof", r |-> at(b2), count |-> 0]
        ELSE IF b2.bit = 1 THEN [kind |-> "long", r |-> at(b2), count |-> 0]
        ELSE IF ~b3.ok THEN [kind |-> "eof", r |-> at(b3), count |-> 0]
        ELSE IF ~b4.ok THEN [kind |-> "eof", r |-> at(b4), count |-> 0]
        ELSE [kind |-> "short", r |-> at(b4), count |-> b3.bit + 2 * b4.bit]

\* the read_bit calls that open one iteration of the loop of unhsq, up to
\* the branch taken: [kind, r, count] with kind "literal", "long", "short",
\* or "eof" when a read_bit panicked; count is 2 * b0 + b1 of a short command
cmd_head(src, r) ==
    LET b1 == read_bit(src, r)
        b2 == read_bit(src, b1)
        b3 == read_bit(src, b2)
        b4 == read_bit(src, b3)
        at(b) == [queue |-> b.queue, pos |-> b.pos]
    IN  IF ~b1.ok THEN [kind |-> "eof", r |-> at(b1), count |-> 0]
        ELSE IF b1.bit = 1 THEN [kind |-> "literal", r |-> at(b1), count |-> 0]
        ELSE IF ~b2.ok THEN [kind |-> "eof", r |-> at(b2), count |-> 0]
        ELSE IF b2.bit = 1 THEN [kind |-> "long", r |-> at(b2), count |-> 0]
        ELSE IF ~b3.ok THEN [kind |-> "eof", r |-> at(b3), count |-> 0]
        ELSE IF ~b4.ok THEN [kind |-> "eof", r |-> at(b4), count |-> 0]
        ELSE [kind |-> "short", r |-> at(b4), count |-> 2 * b3.bit + b4.bit]

\* a copy that takes every byte from the output as it was before the loop
copy_snapshot(buf, ofs, offset, n, checks) ==
    IF ofs < offset THEN [panic |-> "index_read", w |-> buf, w_ofs |-> ofs]
    ELSE IF ofs + n > Len(buf) THEN [panic |-> "index_write", w |-> buf, w_ofs |-> ofs]
    ELSE [panic |-> "",
          w |-> [i \in 1..Len(buf) |->
                   IF i > ofs /\ i <= ofs + n THEN buf[i - offset] ELSE buf[i]],
          w_ofs |-> ofs + n]

\* for _ in 0..n { w[w_ofs] = w[w_ofs - offset]; w_ofs += 1 }, one byte at a
\* time: [panic, w, w_ofs].  checks = TRUE is a build with overflow checks (the
\* u16 subtraction panics), FALSE one where it wraps and the index is then
\* bounds-checked.
RECURSIVE copy(_, _, _, _, _)
copy(buf, ofs, offset, n, checks) ==
    IF n = 0 THEN [panic |-> "", w |-> buf, w_ofs |-> ofs]
    ELSE IF ofs < offset /\ checks
         THEN [panic |-> "sub_overflow", w |-> buf, w_ofs |-> ofs]
    ELSE LET from == (ofs - offset) % U16
         IN  IF from >= Len(buf)
             THEN [panic |-> "index_read", w |-> buf, w_ofs |-> ofs]
             ELSE IF ofs >= Len(buf)
                  THEN [panic |-> "index_write", w |-> buf, w_ofs |-> ofs]
             ELSE copy([buf EXCEPT ![ofs + 1] = buf[from + 1]], ofs + 1, offset,
                       n - 1, checks)

----------------------------------------------------------------------------
(* unhsq.rs: one iteration of the loop of unhsq, after the control bits.   *)
(* An outcome is [status, why, r, w, w_ofs]: status "run" (next            *)
(* iteration), "done" (break) or "panic" (why names the panic).            *)

MaxDistance == 8192
ShortDistance == 256

Outcome(status, why, r, buf, ofs) ==
    [status |-> status, why |-> why, r |-> r, w |-> buf, w_ofs |-> ofs]

\* unhsq_literal that advances the write position before it stores
unhsq_literal_preinc(src, r, buf, ofs) ==
    LET b == read_u8(src, r.pos)
        r2 == [queue |-> r.queue, pos |-> b.pos]
    IN  IF ~b.ok THEN Outcome("panic", "eof", r2, buf, ofs)
        ELSE IF ofs + 1 >= Len(buf) THEN Outcome("panic", "index_write", r2, buf, ofs)
        ELSE Outcome("run", "", r2, [buf EXCEPT ![ofs + 2] = b.v], ofs + 1)

\* w[w_ofs as usize] = r.read_u8(); w_ofs += 1;
unhsq_literal(src, r, buf, ofs) ==
    LET b == read_u8(src, r.pos)
        r2 == [queue |-> r.queue, pos |-> b.pos]
    IN  IF ~b.ok THEN Outcome("panic", "eof", r2, buf, ofs)
        ELSE IF ofs >= Len(buf) THEN Outcome("panic", "index_write", r2, buf, ofs)
        ELSE Outcome("run", "", r2, [buf EXCEPT ![ofs + 1] = b.v], ofs + 1)

\* the copy loop shared by both back-references
unhsq_copy(r, buf, ofs, offset, count, checks) ==
    LET c == copy(buf, ofs, offset, count + 2, checks)
    IN  Outcome(IF c.panic = "" THEN "run" ELSE "panic", c.panic, r, c.w, c.w_ofs)

\* a long back-reference that reads the length byte whatever the length code
unhsq_long_ext_always(src, r, buf, ofs, checks) ==
    LET word == read_le_u16(src, r.pos)
        code == word.v % 8
        offset == MaxDistance - (word.v \div 8)
        ext == read_u8(src, word.pos)
        count == IF code = 0 THEN ext.v ELSE code
        r2 == [queue |-> r.queue, pos |-> ext.pos]
    IN  IF ~word.ok
        THEN Outcome("panic", "eof", [queue |-> r.queue, pos |-> word.pos], buf, ofs)
        ELSE IF ~ext.ok THEN Outcome("panic", "eof", r2, buf, ofs)
        ELSE IF count = 0 THEN Outcome("done", "", r2, buf, ofs)
        ELSE unhsq_copy(r2, buf, ofs, offset, count, checks)

\* the branch taken on control bits 0, 1
unhsq_long(src, r, buf, ofs, checks) ==
    LET word == read_le_u16(src, r.pos)
        code == word.v % 8
        offset == MaxDistance - (word.v \div 8)
        ext == read_u8(src, word.pos)
        count == IF code = 0 THEN ext.v ELSE code
        r2 == [queue |-> r.queue, pos |-> IF code = 0 THEN ext.pos ELSE word.pos]
    IN  IF ~word.ok
        THEN Outcome("panic", "eof", [queue |-> r.queue, pos |-> word.pos], buf, ofs)
        ELSE IF code = 0 /\ ~ext.ok THEN Outcome("panic", "eof", r2, buf, ofs)
        ELSE IF count = 0 THEN Outcome("done", "", r2, buf, ofs)
        ELSE unhsq_copy(r2, buf, ofs, offset, count, checks)

\* the branch taken on control bits 0, 0 (count = 2 * b0 + b1 already read)
unhsq_short(src, r, count, buf, ofs, checks) ==
    LET b == read_u8(src, r.pos)
        offset == ShortDistance - b.v
        r2 == [queue |-> r.queue, pos |-> b.pos]
    IN  IF ~b.ok THEN Outcome("panic", "eof", r2, buf, ofs)
        ELSE unhsq_copy(r2, buf, ofs, offset, count, checks)

----------------------------------------------------------------------------
(* dat_file.rs: DatFile::read up to the call of unhsq, and its return *)

zeros(n) == [i \in 1..n |-> 0]

HeaderLen == 6

\* &data[6..]
payload(d) == SubSeq(d, HeaderLen + 1, Len(d))

\* the two length fields read from the header
unpacked_length(d) == read_le_u16(d, 0).v
packed_length(d) == read_le_u16(d, 3).v

\* read_begin without the comparison of packed_length with the size
read_begin_no_length_check(f, es, pos, name) ==
    LET r == read_raw(f, es, pos, name)
        Ret(kind, via, bytes, buf) ==
            [kind |-> kind, via |-> via, bytes |-> bytes, raw |-> r.v,
             pos |-> r.pos, w |-> buf]
    IN  IF r.kind # "ok" THEN Ret(r.kind, "read_raw", <<>>, <<>>)
        ELSE IF ~is_compressed(r.v) THEN Ret("ok", "raw", r.v, <<>>)
        ELSE Ret("none", "unhsq", <<>>, zeros(unpacked_length(r.v)))

\* read, from read_raw to the allocation of unpacked_data:
\* [kind, via, bytes, raw, pos, w]; kind "none" with via "unhsq" means the
\* decoder is entered with output slice w
read_begin(f, es, pos, name) ==
    LET r == read_raw(f, es, pos, name)
        Ret(kind, via, bytes, buf) ==
            [kind |-> kind, via |-> via, bytes |-> bytes, raw |-> r.v,
             pos |-> r.pos, w |-> buf]
    IN  IF r.kind # "ok" THEN Ret(r.kind, "read_raw", <<>>, <<>>)
        ELSE IF ~is_compressed(r.v) THEN Ret("ok", "raw", r.v, <<>>)
        ELSE IF packed_length(r.v) # Len(r.v) THEN Ret("ok", "mismatch", r.v, <<>>)
        ELSE Ret("none", "unhsq", <<>>, zeros(unpacked_length(r.v)))

\* read_return that hands back only the bytes the decoder wrote
read_return_written(raw, buf, ofs) == SubSeq(buf, 1, ofs)

\* Ok(unpacked_data), after unhsq returned: raw is data, buf is unpacked_data
read_return(raw, buf, ofs) == buf

----------------------------------------------------------------------------
(* The operations of a DatFile as actions.  read runs to completion before *)
(* any other call (pc = "unhsq" while it is inside the decoder, one action *)
(* per iteration of the decoder's loop).                                   *)

NoResult == [op |-> "none", name |-> <<>>, kind |-> "none", bytes |-> <<>>,
             via |-> "", why |-> ""]

Reader0 == [queue |-> 0, pos |-> 0]

\* the names the callers ask for
ReqNames == {<<65>>, <<66>>}

Open ==
    /\ pc = "closed"
    /\ LET o == open(file)
       IN  /\ pc' = IF o.ok THEN "open" ELSE "openfail"
           /\ entries' = o.entries
           /\ fpos' = o.pos
           /\ result' = [NoResult EXCEPT !.op = "open",
                                         !.kind = IF o.ok THEN "ok" ELSE "IOError"]
    /\ UNCHANGED <<file, data, rd, w, w_ofs>>

ReadRaw(name) ==
    /\ pc = "open"
    /\ LET r == read_raw(file, entries, fpos, name)
       IN  /\ fpos' = r.pos
           /\ data' = r.v
           /\ result' = [NoResult EXCEPT !.op = "read_raw", !.name = name,
                                         !.kind = r.kind, !.bytes = r.v]
    /\ rd' = Reader0
    /\ w' = <<>>
    /\ w_ofs' = 0
    /\ UNCHANGED <<file, pc, entries>>

Read(name) ==
    /\ pc = "open"
    /\ LET b == read_begin(file, entries, fpos, name)
       IN  /\ fpos' = b.pos
           /\ data' = b.raw
           /\ result' = [NoResult EXCEPT !.op = "read", !.name = name,
                                         !.kind = b.kind, !.bytes = b.bytes,
                                         !.via = b.via]
           /\ pc' = IF b.kind = "none" THEN "unhsq" ELSE "open"
           /\ w' = b.w
    /\ rd' = Reader0
    /\ w_ofs' = 0
    /\ UNCHANGED <<file, entries>>

\* an iteration that, when the loop is to go on, leaves the Reader and the
\* output where they were
Advance_stalled(out) ==
    /\ rd' = IF out.status = "run" THEN rd ELSE out.r
    /\ w' = IF out.status = "run" THEN w ELSE out.w
    /\ w_ofs' = IF out.status = "run" THEN w_ofs ELSE out.w_ofs
    /\ pc' = CASE out.status = "run" -> "unhsq"
               [] out.status = "done" -> "open"
               [] OTHER -> "abort"
    /\ result' = CASE out.status = "run" -> result
                   [] out.status = "done" ->
                        [result EXCEPT !.kind = "ok",
                                       !.bytes = read_return(data, out.w, out.w_ofs)]
                   [] OTHER -> [result EXCEPT !.kind = "panic", !.why = out.why]
    /\ UNCHANGED <<file, entries, fpos, data>>

\* the effect of one iteration's outcome on the state
Advance(out) ==
    /\ rd' = out.r
    /\ w' = out.w
    /\ w_ofs' = out.w_ofs
    /\ pc' = CASE out.status = "run" -> "unhsq"
               [] out.status = "done" -> "open"
               [] OTHER -> "abort"
    /\ result' = CASE out.status = "run" -> result
                   [] out.status = "done" ->
                        [result EXCEPT !.kind = "ok",
                                       !.bytes = read_return(data, out.w, out.w_ofs)]
                   [] OTHER -> [result EXCEPT !.kind = "panic", !.why = out.why]
    /\ UNCHANGED <<file, entries, fpos, data>>

UnhsqLiteral ==
    /\ pc = "unhsq"
    /\ LET h == cmd_head(payload(data), rd)
       IN  /\ h.kind = "literal"
           /\ Advance(unhsq_literal(payload(data), h.r, w, w_ofs))

UnhsqLong ==
    /\ pc = "unhsq"
    /\ LET h == cmd_head(payload(data), rd)
       IN  /\ h.kind = "long"
           /\ \E checks \in BOOLEAN :
                Advance(unhsq_long(payload(data), h.r, w, w_ofs, checks))

UnhsqShort ==
    /\ pc = "unhsq"
    /\ LET h == cmd_head(payload(data), rd)
       IN  /\ h.kind = "short"
           /\ \E checks \in BOOLEAN :
                Advance(unhsq_short(payload(data), h.r, h.count, w, w_ofs, checks))

\* a read_bit of the iteration finds the input exhausted: unwrap panics
UnhsqEof ==
    /\ pc = "unhsq"
    /\ LET h == cmd_head(payload(data), rd)
       IN  /\ h.kind = "eof"
           /\ Advance(Outcome("panic", "eof", h.r, w, w_ofs))

DatIdle ==
    /\ file = <<>>
    /\ pc = "idle"
    /\ entries = <<>>
    /\ fpos = 0
    /\ data = <<>>
    /\ result = NoResult
    /\ rd = Reader0
    /\ w = <<>>
    /\ w_ofs = 0

----------------------------------------------------------------------------
(* unhsq.rs and dat_file.rs: unhsq and DatFile::read run to their end *)

\* one iteration of the loop of unhsq, h being what its control bits gave
unhsq_step(src, h, buf, ofs, checks) ==
    CASE h.kind = "literal" -> unhsq_literal(src, h.r, buf, ofs)
      [] h.kind = "long" -> unhsq_long(src, h.r, buf, ofs, checks)
      [] h.kind = "short" -> unhsq_short(src, h.r, h.count, buf, ofs, checks)
      [] OTHER -> Outcome("panic", "eof", h.r, buf, ofs)

\* the loop of unhsq from a Reader and write position on: the outcome of
\* the iteration that leaves it ("done" or "panic")
RECURSIVE unhsq_run(_, _, _, _, _)
unhsq_from(src, out, checks) ==
    IF out.status = "run" THEN unhsq_run(src, out.r, out.w, out.w_ofs, checks)
    ELSE out

unhsq_run(src, r, buf, ofs, checks) ==
    unhsq_from(src, unhsq_step(src, cmd_head(src, r), buf, ofs, checks), checks)

\* unhsq(&data[6..], &mut unpacked_data); Ok(unpacked_data)
read_end(b, out) ==
    IF out.status = "done"
    THEN [kind |-> "ok", bytes |-> read_return(b.raw, out.w, out.w_ofs), pos |-> b.pos]
    ELSE [kind |-> "panic", bytes |-> <<>>, pos |-> b.pos]

\* read after read_begin returned b
read_from(b, checks) ==
    IF b.kind # "none" THEN [kind |-> b.kind, bytes |-> b.bytes, pos |-> b.pos]
    ELSE read_end(b, unhsq_run(payload(b.raw), Reader0, b.w, 0, checks))

\* pub fn read(&mut self, name: &str) -> Result<Vec<u8>, Error>:
\* [kind, bytes, pos] with kind "ok", "EntryNotFound", "IOError" or "panic"
read(f, es, pos, name, checks) == read_from(read_begin(f, es, pos, name), checks)

----------------------------------------------------------------------------
(* main.rs: extract_all and extract *)

\* fn extract(path, dat_file, entry_name) -> Result<(), Error>: [kind, pos]
\* with kind "ok", "IOError" or "panic".  read(..).expect(..) panics on every
\* Err of read (r is what read gave); io is whether creating and writing the
\* output file worked.
extract_from(r, io) ==
    IF r.kind # "ok" THEN [kind |-> "panic", pos |-> r.pos]
    ELSE IF io # "ok" THEN [kind |-> "IOError", pos |-> r.pos]
    ELSE [kind |-> "ok", pos |-> r.pos]

extract(f, es, pos, name, checks, io) == extract_from(read(f, es, pos, name, checks), io)

\* let entry_names = dat_file.entries.iter().map(|e| e.name.clone()).collect()
ExtractAllBegin ==
    /\ pc = "open"
    /\ bpc = "idle"
    /\ bnames' = [i \in 1..Len(entries) |-> entries[i].name]
    /\ bidx' = 0
    /\ bpc' = "run"
    /\ blog' = <<>>
    /\ UNCHANGED datVars

\* what the loop of extract_all does with the result x of extract(..)?
ExtractAllTake(x) ==
    /\ blog' = Append(blog, [name |-> bnames[bidx + 1], kind |-> x.kind])
    /\ fpos' = x.pos
    /\ bpc' = CASE x.kind = "ok" -> "run"
                [] x.kind = "panic" -> "abort"
                [] OTHER -> "err"
    /\ pc' = IF x.kind = "panic" THEN "abort" ELSE pc

\* one iteration of for name in entry_names.iter() { extract(..)?; }
ExtractAllStep ==
    /\ bpc = "run"
    /\ bidx < Len(bnames)
    /\ \E checks \in BOOLEAN, io \in {"ok", "err"} :
          ExtractAllTake(extract(file, entries, fpos, bnames[bidx + 1], checks, io))
    /\ bidx' = bidx + 1
    /\ UNCHANGED <<file, entries, data, result, rd, w, w_ofs, bnames>>

\* the loop is over: Ok(())
ExtractAllEnd ==
    /\ bpc = "run"
    /\ bidx = Len(bnames)
    /\ bpc' = "ok"
    /\ UNCHANGED <<datVars, bnames, bidx, blog>>

BatchIdle ==
    /\ bnames = <<>>
    /\ bidx = 0
    /\ bpc = "idle"
    /\ blog = <<>>

----------------------------------------------------------------------------
(* pal.rs and sprite.rs: the palette and SpriteSheet::apply_palette_update *)

PalLen == 768

\* Pal::new()
Pal_new == [j \in 0..(PalLen - 1) |-> 0]

\* pub fn set(&mut self, i: usize, rgb: (u8, u8, u8)): [ok, pal]; the array
\* index 3 * i + 0 is checked first, ok = FALSE is its panic
Pal_set(p, i, rgb) ==
    IF 3 * i + 0 >= PalLen THEN [ok |-> FALSE, pal |-> p]
    ELSE [ok |-> TRUE,
          pal |-> [p EXCEPT ![3 * i] = rgb[1], ![3 * i + 1] = rgb[2],
                            ![3 * i + 2] = rgb[3]]]

\* for i in lo..hi { read cr, cg, cb; pal.set(index + i, ..) }, pos being the
\* cursor before iteration lo: [stop, pal, pos, n] with stop "done", "err" (a
\* read failed) or "panic" (pal.set panicked), n the number of entries set.
\* The iterations run in order, the first half of the range before the second.
RECURSIVE set_loop(_, _, _, _, _, _)
set_loop(s, pos, p, index, lo, hi) ==
    IF lo = hi THEN [stop |-> "done", pal |-> p, pos |-> pos, n |-> lo]
    ELSE IF hi = lo + 1
         THEN IF pos + 3 > Len(s)
              THEN [stop |-> "err", pal |-> p, pos |-> Len(s), n |-> lo]
              ELSE LET st == Pal_set(p, index + lo, <<s[pos + 1], s[pos + 2], s[pos + 3]>>)
                   IN  IF ~st.ok
                       THEN [stop |-> "panic", pal |-> p, pos |-> pos + 3, n |-> lo]
                       ELSE [stop |-> "done", pal |-> st.pal, pos |-> pos + 3, n |-> hi]
    ELSE LET mid == (lo + hi) \div 2
             l == set_loop(s, pos, p, index, lo, mid)
         IN  IF l.stop # "done" THEN l
             ELSE set_loop(s, l.pos, l.pal, index, mid, hi)

\* a record head that takes count 0 as 256 before it looks for the skip
\* record
pal_record_no_skip(s, pos) ==
    LET index == read_u8(s, pos)
        count == read_u8(s, index.pos)
        Rec(kind, n) == [kind |-> kind, index |-> index.v, count |-> n, pos |-> count.pos]
    IN  IF ~index.ok \/ ~count.ok THEN Rec("err", 0)
        ELSE IF index.v = 255 /\ count.v = 255 THEN Rec("end", 255)
        ELSE Rec("set", IF count.v = 0 THEN 256 ELSE count.v)

\* the head of one iteration of the loop: [kind, index, count, pos] with
\* kind "err" (a read failed), "skip", "end" or "set"
pal_record(s, pos) ==
    LET index == read_u8(s, pos)
        count == read_u8(s, index.pos)
        Rec(kind, n) == [kind |-> kind, index |-> index.v, count |-> n, pos |-> count.pos]
    IN  IF ~index.ok \/ ~count.ok THEN Rec("err", 0)
        ELSE IF index.v = 1 /\ count.v = 0 THEN Rec("skip", 0)
        ELSE IF index.v = 255 /\ count.v = 255 THEN Rec("end", 255)
        ELSE Rec("set", IF count.v = 0 THEN 256 ELSE count.v)

\* let toc_pos = r.read_le_u16()?; if toc_pos <= 2 { return Ok(()) }
PalBegin ==
    /\ ppc = "start"
    /\ LET toc_pos == read_le_u16(pdata, 0)
       IN  /\ ppos' = toc_pos.pos
           /\ ppc' = IF ~toc_pos.ok THEN "err"
                     ELSE IF toc_pos.v <= 2 THEN "ok" ELSE "loop"
    /\ UNCHANGED <<pdata, pal, prec>>

\* index == 1 && count == 0: r.seek_relative(3)?; continue
PalSkip ==
    /\ ppc = "loop"
    /\ LET h == pal_record(pdata, ppos)
       IN  /\ h.kind = "skip"
           /\ ppos' = h.pos + 3
           /\ prec' = <<h.index, h.count>>
    /\ UNCHANGED <<pdata, pal, ppc>>

\* index == 0xff && count == 0xff: break; Ok(())
PalEnd ==
    /\ ppc = "loop"
    /\ LET h == pal_record(pdata, ppos)
       IN  /\ h.kind = "end"
           /\ ppos' = h.pos
           /\ prec' = <<h.index, h.count>>
    /\ ppc' = "ok"
    /\ UNCHANGED <<pdata, pal>>

\* any other record: count triples are read and set
PalSet ==
    /\ ppc = "loop"
    /\ LET h == pal_record(pdata, ppos)
           l == set_loop(pdata, h.pos, pal, h.index, 0, h.count)
       IN  /\ h.kind = "set"
           /\ ppos' = l.pos
           /\ pal' = l.pal
           /\ prec' = <<h.index, h.count>>
           /\ ppc' = CASE l.stop = "done" -> "loop"
                       [] l.stop = "err" -> "err"
                       [] OTHER -> "abort"
    /\ UNCHANGED pdata

\* a read of index or count fails: the ? returns the error
PalEof ==
    /\ ppc = "loop"
    /\ LET h == pal_record(pdata, ppos)
       IN  /\ h.kind = "err"
           /\ ppos' = Len(pdata)
    /\ ppc' = "err"
    /\ UNCHANGED <<pdata, pal, prec>>

PalIdle ==
    /\ pdata = <<>>
    /\ ppos = 0
    /\ pal = <<>>
    /\ ppc = "idle"
    /\ prec = <<>>

----------------------------------------------------------------------------
(* frame.rs: Frame *)

\* pub fn new(width: usize, height: usize) -> Self
Frame_new(width, height) ==
    [width |-> width, height |-> height, data |-> zeros(width * height)]

\* pub fn clear(&mut self)
Frame_clear(f) ==
    [f EXCEPT !.data = [i \in 1..Len(f.data) |->
                          IF (i - 1) \div f.width < f.height THEN 0 ELSE f.data[i]]]

\* a write_pixel that checks the index into the buffer instead of x and y
write_pixel_index_checked(f, x, y, c) ==
    IF y * f.width + x < Len(f.data)
    THEN [f EXCEPT !.data[y * f.width + x + 1] = c]
    ELSE f

\* pub fn write_pixel(&mut self, x: usize, y: usize, c: u8)
write_pixel(f, x, y, c) ==
    IF x < f.width /\ y < f.height
    THEN [f EXCEPT !.data[y * f.width + x + 1] = c]
    ELSE f

----------------------------------------------------------------------------
(* sprite.rs: Sprite *)

\* pub fn new_from_slice(id: usize, data: &'a [u8]) -> Self, for a slice of
\* at least 4 bytes
Sprite_new_from_slice(bytes) ==
    LET w0 == from_le_bytes(bytes[1], bytes[2])
        w1 == from_le_bytes(bytes[3], bytes[4])
        flags == (w0 \div 512) * 2          \* (w0 & 0xfe00) >> 8
    IN  [width |-> w0 % 512,                \* w0 & 0x01ff
         height |-> w1 % 256,               \* w1 & 0x00ff
         pal_offset |-> w1 \div 256,        \* (w1 & 0xff00) >> 8
         rle |-> (flags \div 128) % 2 = 1,  \* (flags & 0x80) != 0
         data |-> SubSeq(bytes, 5, Len(bytes))]

\* pub fn bpp(&self) -> usize
bpp(s) == IF s.pal_offset < 254 THEN 4 ELSE 8

\* usize::div_ceil
div_ceil(a, b) == (a + b - 1) \div b

\* a pitch of two pixels per byte without the padding to four pixels
pitch_unpadded(s) == IF bpp(s) = 8 THEN s.width ELSE div_ceil(s.width, 2)

\* pub fn pitch(&self) -> usize
pitch(s) == IF bpp(s) = 8 THEN s.width ELSE 2 * div_ceil(s.width, 4)

\* rle_dst.write_u8(value) on a Cursor<&mut Vec<u8>>: one byte is written at
\* dpos <= len, and the Vec grows by it when dpos is its end
put(buf, dpos, v) ==
    [i \in 1..Max(Len(buf), dpos + 1) |-> IF i = dpos + 1 THEN v ELSE buf[i]]

\* for _ in 0..count { rle_dst.write_u8(value)? }
RECURSIVE write_run(_, _, _, _)
write_run(buf, dpos, value, n) ==
    IF n = 0 THEN buf ELSE write_run(put(buf, dpos, value), dpos + 1, value, n - 1)

\* for _ in 0..count { let value = rle_src.read_u8()?; rle_dst.write_u8(value)? }
\* the caller has checked that n bytes are there
RECURSIVE copy_run(_, _, _, _, _)
copy_run(src, spos, buf, dpos, n) ==
    IF n = 0 THEN buf
    ELSE copy_run(src, spos + 1, put(buf, dpos, src[spos + 1]), dpos + 1, n - 1)

\* while x < pitch { ... } of one row: [ok, spos, buf, dpos]
RECURSIVE unrle_row(_, _, _, _, _, _)
unrle_row(src, spos, buf, dpos, p, x) ==
    IF ~(x < p) THEN [ok |-> TRUE, spos |-> spos, buf |-> buf, dpos |-> dpos]
    ELSE LET cmd == read_u8(src, spos)
             value == read_u8(src, cmd.pos)
             fail == [ok |-> FALSE, spos |-> Len(src), buf |-> buf, dpos |-> dpos]
         IN  IF ~cmd.ok THEN fail
             ELSE IF cmd.v >= 128                       \* cmd & 0x80 != 0
                  THEN LET count == 257 - cmd.v
                       IN  IF ~value.ok THEN fail
                           ELSE unrle_row(src, value.pos,
                                          write_run(buf, dpos, value.v, count),
                                          dpos + count, p, x + count)
             ELSE LET count == cmd.v + 1
                  IN  IF cmd.pos + count > Len(src) THEN fail
                      ELSE unrle_row(src, cmd.pos + count,
                                     copy_run(src, cmd.pos, buf, dpos, count),
                                     dpos + count, p, x + count)

\* for _ in 0..self.height() { ... }
RECURSIVE unrle_rows(_, _, _, _, _, _)
unrle_rows(src, spos, buf, dpos, p, rows) ==
    IF rows = 0 THEN [ok |-> TRUE, spos |-> spos, buf |-> buf, dpos |-> dpos]
    ELSE LET r == unrle_row(src, spos, buf, dpos, p, 0)
         IN  IF ~r.ok THEN r
             ELSE unrle_rows(src, r.spos, r.buf, r.dpos, p, rows - 1)

\* fn unrle(&self) -> std::io::Result<Vec<u8>>: [ok, buf]
unrle(s) ==
    LET r == unrle_rows(s.data, 0, zeros(s.height * pitch(s)), 0, pitch(s), s.height)
    IN  [ok |-> r.ok, buf |-> r.buf]

\* the position a sprite pixel is written to: dst + (flipped) position
dst_pos(dst, flip, extent, v) == dst + (IF flip THEN extent - v - 1 ELSE v)

\* the nested loops of draw_8bpp from pixel k = y * width + x on:
\* [panic, frame]
RECURSIVE draw_8bpp_loop(_, _, _, _, _, _)
draw_8bpp_loop(s, src, f, a, mode, k) ==
    IF k >= s.width * s.height THEN [panic |-> FALSE, frame |-> f]
    ELSE LET y == k \div s.width
             x == k % s.width
             at == y * pitch(s) + x
         IN  IF at >= Len(src) THEN [panic |-> TRUE, frame |-> f]
             ELSE LET c == src[at + 1]
                      g == IF mode # 255 \/ c # 0
                           THEN write_pixel(f, dst_pos(a.x, a.flip_x, s.width, x),
                                            dst_pos(a.y, a.flip_y, s.height, y), c)
                           ELSE f
                  IN  draw_8bpp_loop(s, src, g, a, mode, k + 1)

\* fn draw_8bpp(&self, src, frame, x, y, flip_x, flip_y, _scale, mode)
draw_8bpp(s, src, f, a) ==
    LET mode == IF a.pal_offset # 0 THEN a.pal_offset ELSE s.pal_offset
    IN  draw_8bpp_loop(s, src, f, a, mode, 0)

\* a nibble choice with the halves exchanged
nibble_swapped(b, x) == IF x % 2 = 0 THEN b \div 16 ELSE b % 16

\* if x & 1 == 0 { c &= 0xf } else { c >>= 4 }
nibble(b, x) == IF x % 2 = 0 THEN b % 16 ELSE b \div 16

\* the nested loops of draw_4bb from pixel k on: [panic, frame]; checks as
\* in copy: c + pal_offset is a u8 addition
RECURSIVE draw_4bb_loop(_, _, _, _, _, _, _)
draw_4bb_loop(s, src, f, a, pal_offset, checks, k) ==
    IF k >= s.width * s.height THEN [panic |-> FALSE, frame |-> f]
    ELSE LET y == k \div s.width
             x == k % s.width
             at == y * pitch(s) + (x \div 2)
         IN  IF at >= Len(src) THEN [panic |-> TRUE, frame |-> f]
             ELSE LET b == src[at + 1]
                      c == nibble(b, x)
                  IN  IF c = 0 THEN draw_4bb_loop(s, src, f, a, pal_offset, checks, k + 1)
                      ELSE IF c + pal_offset >= U8 /\ checks
                           THEN [panic |-> TRUE, frame |-> f]
                      ELSE draw_4bb_loop(
                               s, src,
                               write_pixel(f, dst_pos(a.x, a.flip_x, s.width, x),
                                           dst_pos(a.y, a.flip_y, s.height, y),
                                           (c + pal_offset) % U8),
                               a, pal_offset, checks, k + 1)

\* a draw_4bb in which the embedded offset, when non-zero, wins over the
\* draw-time argument
draw_4bb_embedded_first(s, src, f, a, checks) ==
    LET pal_offset == IF s.pal_offset # 0 THEN s.pal_offset ELSE a.pal_offset
    IN  draw_4bb_loop(s, src, f, a, pal_offset, checks, 0)

\* fn draw_4bb(&self, src, frame, x, y, flip_x, flip_y, _scale, pal_offset)
draw_4bb(s, src, f, a, checks) ==
    LET pal_offset == IF a.pal_offset # 0 THEN a.pal_offset ELSE s.pal_offset
    IN  draw_4bb_loop(s, src, f, a, pal_offset, checks, 0)

\* pub fn draw(&self, frame, x, y, flip_x, flip_y, scale, pal_offset):
\* [res, frame] with res "ok", "err" (unrle failed) or "panic"
draw(s, f, a, checks) ==
    LET u == IF s.rle THEN unrle(s) ELSE [ok |-> TRUE, buf |-> s.data]
        d == IF bpp(s) = 8 THEN draw_8bpp(s, u.buf, f, a)
             ELSE draw_4bb(s, u.buf, f, a, checks)
    IN  IF ~u.ok THEN [res |-> "err", frame |-> f]
        ELSE [res |-> IF d.panic THEN "panic" ELSE "ok", frame |-> d.frame]

----------------------------------------------------------------------------
(* The calls on a Frame as actions *)

MaxOps == 2

NoCall == [op |-> "none", a |-> <<>>, res |-> "", before |-> <<>>]

\* Frame::new(width, height)
FrameNew(width, height) ==
    /\ dlast.res # "panic"
    /\ dops < MaxOps
    /\ frame' = Frame_new(width, height)
    /\ dlast' = [op |-> "new", a |-> <<width, height>>, res |-> "ok",
                 before |-> frame.data]
    /\ dops' = dops + 1
    /\ UNCHANGED sprite

\* frame.write_pixel(x, y, c)
WritePixel(x, y, c) ==
    /\ dlast.res # "panic"
    /\ dops < MaxOps
    /\ frame' = write_pixel(frame, x, y, c)
    /\ dlast' = [op |-> "write_pixel", a |-> <<x, y, c>>, res |-> "ok",
                 before |-> frame.data]
    /\ dops' = dops + 1
    /\ UNCHANGED sprite

\* frame.clear()
Clear ==
    /\ dlast.res # "panic"
    /\ dops < MaxOps
    /\ frame' = Frame_clear(frame)
    /\ dlast' = [op |-> "clear", a |-> <<>>, res |-> "ok", before |-> frame.data]
    /\ dops' = dops + 1
    /\ UNCHANGED sprite

\* sprite.draw(&mut frame, x, y, flip_x, flip_y, scale, pal_offset)
Draw(a) ==
    /\ dlast.res # "panic"
    /\ dops < MaxOps
    /\ \E checks \in BOOLEAN :
          LET d == draw(sprite, frame, a, checks)
          IN  /\ frame' = d.frame
              /\ dlast' = [op |-> "draw", a |-> a, res |-> d.res, before |-> frame.data]
    /\ dops' = dops + 1
    /\ UNCHANGED sprite

DrawIdle ==
    /\ sprite = <<>>
    /\ frame = <<>>
    /\ dlast = NoCall
    /\ dops = 0

----------------------------------------------------------------------------
(* main.rs: extract_sprites, from the resource it has read; and sprite.rs: *)
(* SpriteSheet::new on the same bytes                                      *)

MaxSubResources == 1000
MaxWidth == 320
MaxHeight == 200

Toc(res, toc_position, offsets) ==
    [res |-> res, toc_position |-> toc_position, offsets |-> offsets]

\* for _ in 1..sub_resource_count { sub_resource_offsets.push(r.read_le_u16()?) }
\* with n iterations left: [ok, offs]
RECURSIVE toc_read(_, _, _, _)
toc_read(s, pos, n, offs) ==
    IF n <= 0 THEN [ok |-> TRUE, offs |-> offs]
    ELSE IF ~read_le_u16(s, pos).ok THEN [ok |-> FALSE, offs |-> offs]
    ELSE toc_read(s, pos + 2, n - 1, Append(offs, read_le_u16(s, pos).v))

\* the two validation loops over sub_resource_offsets
toc_validate(s, toc_position, offs) ==
    IF \E i \in 1..Len(offs) : offs[i] >= Len(s)
    THEN Toc("panic", toc_position, offs)          \* invalid toc, offset too large
    ELSE IF \E i \in 1..(Len(offs) - 1) : offs[i] >= offs[i + 1]
    THEN Toc("panic", toc_position, offs)          \* invalid toc, non-sequential offsets
    ELSE Toc("ok", toc_position, offs)

\* from first_resource_offset on
toc_from(s, toc_position, first, rest) ==
    IF ~first.ok THEN Toc("err", toc_position, <<>>)
    ELSE IF first.v \div 2 = 0 \/ first.v \div 2 > MaxSubResources
    THEN Toc("panic", toc_position, <<>>)          \* Not a sprite sheet
    ELSE IF ~rest.ok THEN Toc("err", toc_position, rest.offs)
    ELSE toc_validate(s, toc_position, rest.offs)

toc_at(s, toc_position, first) ==
    toc_from(s, toc_position, first,
             IF first.ok THEN toc_read(s, first.pos, first.v \div 2 - 1, <<first.v>>)
             ELSE [ok |-> FALSE, offs |-> <<>>])

\* the table of contents as extract_sprites reads and validates it:
\* [res, toc_position, offsets] with res "ok", "err" (a read failed and the
\* ? returned the error) or "panic"
extract_toc(s) ==
    IF ~read_le_u16(s, 0).ok THEN Toc("err", 0, <<>>)
    ELSE toc_at(s, read_le_u16(s, 0).v, read_le_u16(s, read_le_u16(s, 0).v))

\* let j = (i * 63 / 256) as u8; pal.set(i, (j, j, j)) for i in 0..256
Pal_grey == [j \in 0..(PalLen - 1) |-> ((j \div 3) * 63) \div 256]

\* the palette loop of extract_sprites from cursor position pos on:
\* [res, pal] with res "ok", "err" (a colour byte is missing) or "panic"
\* (the unwrap of a failed read of v, or pal.set past the palette)
RECURSIVE sheet_pal_loop(_, _, _)
sheet_pal_set(s, l) ==
    IF l.stop = "done" THEN sheet_pal_loop(s, l.pos, l.pal)
    ELSE [res |-> IF l.stop = "err" THEN "err" ELSE "panic", pal |-> l.pal, pos |-> l.pos]

sheet_pal_record(s, p, v) ==
    IF ~v.ok THEN [res |-> "panic", pal |-> p, pos |-> v.pos]
    ELSE IF v.v = 256 THEN sheet_pal_loop(s, v.pos + 3, p)
    ELSE IF v.v = 65535 THEN [res |-> "ok", pal |-> p, pos |-> v.pos]
    ELSE sheet_pal_set(s, set_loop(s, v.pos, p, v.v % 256, 0,
                                   IF v.v \div 256 = 0 THEN 256 ELSE v.v \div 256))

sheet_pal_loop(s, pos, p) == sheet_pal_record(s, p, read_le_u16(s, pos))

\* lines 491-524
sheet_pal(s, toc_position) ==
    IF toc_position > 2 THEN sheet_pal_loop(s, 2, Pal_grey)
    ELSE [res |-> "ok", pal |-> Pal_grey, pos |-> 2]

\* the loop of SpriteSheet::apply_palette_update run to its end from cursor
\* position pos: [res, pal, pos] with res "ok", "err" or "panic"
RECURSIVE sprite_pal_loop(_, _, _)
sprite_pal_set(s, l) ==
    IF l.stop = "done" THEN sprite_pal_loop(s, l.pos, l.pal)
    ELSE [res |-> IF l.stop = "err" THEN "err" ELSE "panic", pal |-> l.pal, pos |-> l.pos]

sprite_pal_record(s, p, h) ==
    IF h.kind = "err" THEN [res |-> "err", pal |-> p, pos |-> Len(s)]
    ELSE IF h.kind = "skip" THEN sprite_pal_loop(s, h.pos + 3, p)
    ELSE IF h.kind = "end" THEN [res |-> "ok", pal |-> p, pos |-> h.pos]
    ELSE sprite_pal_set(s, set_loop(s, h.pos, p, h.index, 0, h.count))

sprite_pal_loop(s, pos, p) == sprite_pal_record(s, p, pal_record(s, pos))

\* main.rs: fn apply_palette_update(r, pal), the head of one iteration:
\* [kind, offset, count, pos]
update_record(s, pos) ==
    LET offset == read_u8(s, pos)
        count == read_u8(s, offset.pos)
        Rec(kind, n) == [kind |-> kind, offset |-> offset.v, count |-> n, pos |-> count.pos]
    IN  IF ~offset.ok \/ ~count.ok THEN Rec("err", 0)
        ELSE IF offset.v = 1 /\ count.v = 0 THEN Rec("skip", 0)
        ELSE IF offset.v = 255 /\ count.v = 255 THEN Rec("end", 255)
        ELSE Rec("set", IF count.v = 0 THEN 256 ELSE count.v)

\* the function run to its end from the cursor position pos: [res, pal, pos]
RECURSIVE apply_palette_update(_, _, _)
update_set(s, l) ==
    IF l.stop = "done" THEN apply_palette_update(s, l.pos, l.pal)
    ELSE [res |-> IF l.stop = "err" THEN "err" ELSE "panic", pal |-> l.pal, pos |-> l.pos]

update_take(s, p, h) ==
    IF h.kind = "err" THEN [res |-> "err", pal |-> p, pos |-> Len(s)]
    ELSE IF h.kind = "skip" THEN apply_palette_update(s, h.pos + 3, p)
    ELSE IF h.kind = "end" THEN [res |-> "ok", pal |-> p, pos |-> h.pos]
    ELSE update_set(s, set_loop(s, h.pos, p, h.offset, 0, h.count))

apply_palette_update(s, pos, p) == update_take(s, p, update_record(s, pos))

\* frame.write_png(&filename, &pal).unwrap() after the draw
sheet_png(d, io) ==
    IF d.res # "ok" \/ io = "err" THEN [kind |-> "panic", frame |-> <<>>]
    ELSE [kind |-> "drawn", frame |-> d.frame]

\* the geometry check, Frame::new and sprite.draw(..).unwrap()
sheet_draw(sp, checks, io) ==
    IF ~(sp.width \in 1..MaxWidth) \/ ~(sp.height \in 1..MaxHeight)
    THEN [kind |-> "skipped", frame |-> <<>>]
    ELSE sheet_png(draw(sp, Frame_new(sp.width, sp.height),
                        [x |-> 0, y |-> 0, flip_x |-> FALSE, flip_y |-> FALSE,
                         pal_offset |-> 0], checks), io)

\* one iteration of the loop over sub_resource_offsets: [kind, frame] with
\* kind "drawn", "skipped" or "panic" (the slice from pos, the four header
\* bytes of new_from_slice, or an unwrap)
sheet_sprite(s, toc_position, offset, checks, io) ==
    IF toc_position + offset > Len(s) \/ Len(s) - (toc_position + offset) < 4
    THEN [kind |-> "panic", frame |-> <<>>]
    ELSE sheet_draw(Sprite_new_from_slice(SubSeq(s, toc_position + offset + 1, Len(s))),
                    checks, io)

\* pub fn new(data: &'a [u8]) -> Result<Self, std::io::Error>, the loop with
\* n iterations left and the last push: [res, offsets] with res "ok", "err"
\* or "panic".  The size of an entry is a usize: without overflow checks a
\* negative difference d stands for the wrapped value 2^64 + d.
RECURSIVE sheet_new_loop(_, _, _, _, _, _, _)
sheet_new_loop(d, toc_pos, pos, n, prev_pos, offsets, checks) ==
    IF n <= 0
    THEN IF checks /\ Len(d) - toc_pos - prev_pos < 0
         THEN [res |-> "panic", offsets |-> offsets]
         ELSE [res |-> "ok",
               offsets |-> Append(offsets, <<toc_pos + prev_pos, Len(d) - toc_pos - prev_pos>>)]
    ELSE IF ~read_le_u16(d, pos).ok THEN [res |-> "err", offsets |-> offsets]
    ELSE IF checks /\ read_le_u16(d, pos).v - prev_pos < 0
    THEN [res |-> "panic", offsets |-> offsets]
    ELSE sheet_new_loop(d, toc_pos, pos + 2, n - 1, read_le_u16(d, pos).v,
                        Append(offsets, <<toc_pos + prev_pos,
                                          read_le_u16(d, pos).v - prev_pos>>),
                        checks)

sheet_new_at(d, toc_pos, checks) ==
    IF toc_pos > Len(d) THEN [res |-> "panic", offsets |-> <<>>]    \* &data[toc_pos..]
    ELSE IF ~read_le_u16(d, toc_pos).ok THEN [res |-> "err", offsets |-> <<>>]
    ELSE sheet_new_loop(d, toc_pos, toc_pos + 2, read_le_u16(d, toc_pos).v \div 2 - 1,
                        read_le_u16(d, toc_pos).v, <<>>, checks)

SpriteSheet_new(d, checks) ==
    IF Len(d) < 2 THEN [res |-> "panic", offsets |-> <<>>]          \* data[0..2]
    ELSE sheet_new_at(d, from_le_bytes(d[1], d[2]), checks)

NoReturn == [kind |-> "none", value |-> <<>>]
NoSheet == [res |-> "none", offsets |-> <<>>]

\* lines 459-489: the table of contents
SheetTocTake(t) ==
    /\ soffs' = t.offsets
    /\ spc' = CASE t.res = "ok" -> "pal"
                [] t.res = "err" -> "err"
                [] OTHER -> "abort"
    /\ sret' = IF t.res = "err" THEN [kind |-> "Err", value |-> <<"IOError">>] ELSE sret

SheetToc ==
    /\ spc = "start"
    /\ SheetTocTake(extract_toc(sdata))
    /\ UNCHANGED <<sdata, sidx, slog, spal, ssheet>>

\* lines 491-524: the palette
SheetPalTake(p) ==
    /\ spal' = p.pal
    /\ spc' = CASE p.res = "ok" -> "sprites"
                [] p.res = "err" -> "err"
                [] OTHER -> "abort"
    /\ sret' = IF p.res = "err" THEN [kind |-> "Err", value |-> <<"IOError">>] ELSE sret

SheetPal ==
    /\ spc = "pal"
    /\ SheetPalTake(sheet_pal(sdata, read_le_u16(sdata, 0).v))
    /\ UNCHANGED <<sdata, soffs, sidx, slog, ssheet>>

\* lines 531-551: one sub-resource
SheetSpriteTake(x) ==
    /\ slog' = IF x.kind = "panic" THEN slog
               ELSE Append(slog, [i |-> sidx, kind |-> x.kind, frame |-> x.frame])
    /\ spc' = IF x.kind = "panic" THEN "abort" ELSE spc

SheetSprite ==
    /\ spc = "sprites"
    /\ sidx < Len(soffs)
    /\ \E checks \in BOOLEAN, io \in {"ok", "err"} :
          SheetSpriteTake(sheet_sprite(sdata, read_le_u16(sdata, 0).v, soffs[sidx + 1],
                                       checks, io))
    /\ sidx' = sidx + 1
    /\ UNCHANGED <<sdata, soffs, spal, sret, ssheet>>

\* line 552: Ok(())
SheetEnd ==
    /\ spc = "sprites"
    /\ sidx = Len(soffs)
    /\ spc' = "ok"
    /\ sret' = [kind |-> "Ok", value |-> <<>>]
    /\ UNCHANGED <<sdata, soffs, sidx, slog, spal, ssheet>>

\* SpriteSheet::new(&sprite_data)
SheetNew ==
    /\ spc # "idle"
    /\ ssheet = NoSheet
    /\ \E checks \in BOOLEAN : ssheet' = SpriteSheet_new(sdata, checks)
    /\ UNCHANGED <<sdata, spc, soffs, sidx, slog, spal, sret>>

SheetIdle ==
    /\ sdata = <<>>
    /\ spc = "idle"
    /\ soffs = <<>>
    /\ sidx = 0
    /\ slog = <<>>
    /\ spal = <<>>
    /\ sret = NoReturn
    /\ ssheet = NoSheet

----------------------------------------------------------------------------
(* unhsq.rs: the three methods of Reader, called in any order *)

MaxBitCalls == 34

NoRead == [op |-> "none", v |-> 0, moved |-> FALSE]

\* self.read_bit()
BitTake(b) ==
    /\ qpc' = IF b.ok THEN qpc ELSE "abort"
    /\ qrd' = IF b.ok THEN [queue |-> b.queue, pos |-> b.pos] ELSE qrd
    /\ qn' = IF b.ok THEN qn + 1 ELSE qn
    /\ qfrom' = IF b.ok /\ b.pos # qrd.pos THEN qrd.pos ELSE qfrom
    /\ qlast' = IF b.ok THEN [op |-> "bit", v |-> b.bit, moved |-> b.pos # qrd.pos]
                ELSE qlast

ReaderReadBit ==
    /\ qpc = "run"
    /\ qn < MaxBitCalls
    /\ BitTake(read_bit(qsrc, qrd))
    /\ UNCHANGED qsrc

\* self.read_u8() and self.read_le_u16(): the queue is left alone
ByteTake(op, x) ==
    /\ qpc' = IF x.ok THEN qpc ELSE "abort"
    /\ qrd' = IF x.ok THEN [qrd EXCEPT !.pos = x.pos] ELSE qrd
    /\ qlast' = IF x.ok THEN [op |-> op, v |-> x.v, moved |-> TRUE] ELSE qlast

ReaderReadU8 ==
    /\ qpc = "run"
    /\ ByteTake("u8", read_u8(qsrc, qrd.pos))
    /\ UNCHANGED <<qsrc, qn, qfrom>>

ReaderReadLeU16 ==
    /\ qpc = "run"
    /\ ByteTake("u16", read_le_u16(qsrc, qrd.pos))
    /\ UNCHANGED <<qsrc, qn, qfrom>>

BitIdle ==
    /\ qsrc = <<>>
    /\ qrd = Reader0
    /\ qn = 0
    /\ qfrom = 0
    /\ qlast = NoRead
    /\ qpc = "idle"

----------------------------------------------------------------------------
(* sprite.rs: Sprite::unrle, one command of its inner loop at a time, and  *)
(* main.rs: decompress_4bpp_rle                                            *)

\* a command with count 256 - cmd and cmd for its two kinds
unrle_cmd_short(src, spos, buf, dpos) ==
    LET cmd == read_u8(src, spos)
        value == read_u8(src, cmd.pos)
        fail == [ok |-> FALSE, spos |-> Len(src), buf |-> buf, dpos |-> dpos, count |-> 0]
    IN  IF ~cmd.ok THEN fail
        ELSE IF cmd.v >= 128
        THEN IF ~value.ok THEN fail
             ELSE [ok |-> TRUE, spos |-> value.pos,
                   buf |-> write_run(buf, dpos, value.v, 256 - cmd.v),
                   dpos |-> dpos + 256 - cmd.v, count |-> 256 - cmd.v]
        ELSE IF cmd.pos + cmd.v > Len(src) THEN fail
        ELSE [ok |-> TRUE, spos |-> cmd.pos + cmd.v,
              buf |-> copy_run(src, cmd.pos, buf, dpos, cmd.v),
              dpos |-> dpos + cmd.v, count |-> cmd.v]

\* the body of while x < pitch: [ok, spos, buf, dpos, count]; ok = FALSE is
\* a failed read, whose error the ? returns
unrle_cmd(src, spos, buf, dpos) ==
    LET cmd == read_u8(src, spos)
        value == read_u8(src, cmd.pos)
        fail == [ok |-> FALSE, spos |-> Len(src), buf |-> buf, dpos |-> dpos, count |-> 0]
    IN  IF ~cmd.ok THEN fail
        ELSE IF cmd.v >= 128                        \* cmd & 0x80 != 0
        THEN IF ~value.ok THEN fail
             ELSE [ok |-> TRUE, spos |-> value.pos,
                   buf |-> write_run(buf, dpos, value.v, 257 - cmd.v),
                   dpos |-> dpos + 257 - cmd.v, count |-> 257 - cmd.v]
        ELSE IF cmd.pos + cmd.v + 1 > Len(src) THEN fail
        ELSE [ok |-> TRUE, spos |-> cmd.pos + cmd.v + 1,
              buf |-> copy_run(src, cmd.pos, buf, dpos, cmd.v + 1),
              dpos |-> dpos + cmd.v + 1, count |-> cmd.v + 1]

\* dst.write_u8(v).unwrap() n times on a Cursor<&mut [u8]>, which cannot
\* grow: [ok, buf, dpos]
slice_write_run(buf, dpos, value, n) ==
    IF dpos + n > Len(buf) THEN [ok |-> FALSE, buf |-> buf, dpos |-> dpos]
    ELSE [ok |-> TRUE,
          buf |-> [i \in 1..Len(buf) |-> IF i > dpos /\ i <= dpos + n THEN value ELSE buf[i]],
          dpos |-> dpos + n]

slice_copy_run(src, spos, buf, dpos, n) ==
    IF spos + n > Len(src) \/ dpos + n > Len(buf)
    THEN [ok |-> FALSE, buf |-> buf, dpos |-> dpos]
    ELSE [ok |-> TRUE,
          buf |-> [i \in 1..Len(buf) |->
                     IF i > dpos /\ i <= dpos + n THEN src[spos + i - dpos] ELSE buf[i]],
          dpos |-> dpos + n]

\* fn decompress_4bpp_rle(src, w, h, dst): [res, buf, spos, dpos, starts]
\* with res "ok" or "panic" (an unwrap), from the loop of one row with
\* line_remain bytes left, rows rows left after it; starts are the positions
\* of dst at which the rows began.  w is at most 511, so the i16 line_remain
\* holds 2 * ceil(w / 4).
RECURSIVE decompress_row(_, _, _, _, _, _, _, _)
decompress_next(src, width, rows, line_remain, starts, c) ==
    IF ~c.ok THEN [res |-> "panic", buf |-> c.buf, spos |-> c.spos, dpos |-> c.dpos,
                   starts |-> starts]
    ELSE IF line_remain - c.count <= 0
    THEN IF rows = 0
         THEN [res |-> "ok", buf |-> c.buf, spos |-> c.spos, dpos |-> c.dpos,
               starts |-> starts]
         ELSE decompress_row(src, c.spos, width, rows - 1, 2 * div_ceil(width, 4), c.buf, c.dpos,
                             Append(starts, c.dpos))
    ELSE decompress_row(src, c.spos, width, rows, line_remain - c.count, c.buf, c.dpos, starts)

decompress_cmd(src, cmd, value, buf, dpos) ==
    IF ~cmd.ok THEN [ok |-> FALSE, spos |-> Len(src), buf |-> buf, dpos |-> dpos, count |-> 0]
    ELSE IF cmd.v >= 128
    THEN IF ~value.ok
         THEN [ok |-> FALSE, spos |-> Len(src), buf |-> buf, dpos |-> dpos, count |-> 0]
         ELSE [ok |-> slice_write_run(buf, dpos, value.v, 257 - cmd.v).ok,
               spos |-> value.pos,
               buf |-> slice_write_run(buf, dpos, value.v, 257 - cmd.v).buf,
               dpos |-> slice_write_run(buf, dpos, value.v, 257 - cmd.v).dpos,
               count |-> 257 - cmd.v]
    ELSE [ok |-> slice_copy_run(src, cmd.pos, buf, dpos, cmd.v + 1).ok,
          spos |-> cmd.pos + cmd.v + 1,
          buf |-> slice_copy_run(src, cmd.pos, buf, dpos, cmd.v + 1).buf,
          dpos |-> slice_copy_run(src, cmd.pos, buf, dpos, cmd.v + 1).dpos,
          count |-> cmd.v + 1]

decompress_row(src, spos, width, rows, line_remain, buf, dpos, starts) ==
    decompress_next(src, width, rows, line_remain, starts,
                    decompress_cmd(src, read_u8(src, spos),
                                   read_u8(src, read_u8(src, spos).pos), buf, dpos))

decompress_4bpp_rle(src, width, height, dst) ==
    IF height = 0 THEN [res |-> "ok", buf |-> dst, spos |-> 0, dpos |-> 0, starts |-> <<>>]
    ELSE decompress_row(src, 0, width, height - 1, 2 * div_ceil(width, 4), dst, 0, <<0>>)

NoAlt == [res |-> "none", buf |-> <<>>, spos |-> 0, dpos |-> 0, starts |-> <<>>]

\* let pitch = self.pitch(); let mut buf = vec![0u8; self.height() * pitch];
\* a sprite without rows, or with rows of no bytes, is decoded at once
RleBegin ==
    /\ upc = "start"
    /\ ubuf' = zeros(usprite.height * pitch(usprite))
    /\ uspos' = 0
    /\ udpos' = 0
    /\ urow' = IF pitch(usprite) = 0 THEN usprite.height ELSE 0
    /\ ux' = 0
    /\ ustarts' = IF usprite.height = 0 \/ pitch(usprite) = 0 THEN <<>> ELSE <<0>>
    /\ upc' = IF usprite.height = 0 \/ pitch(usprite) = 0 THEN "ok" ELSE "run"
    /\ UNCHANGED <<usprite, ualt>>

\* one command, x += count, and the loop heads that follow it
RleTake(c) ==
    /\ uspos' = c.spos
    /\ ubuf' = c.buf
    /\ udpos' = c.dpos
    /\ ux' = IF c.ok /\ ux + c.count < pitch(usprite) THEN ux + c.count ELSE 0
    /\ urow' = IF c.ok /\ ~(ux + c.count < pitch(usprite)) THEN urow + 1 ELSE urow
    /\ ustarts' = IF c.ok /\ ~(ux + c.count < pitch(usprite)) /\ urow + 1 < usprite.height
                  THEN Append(ustarts, c.dpos) ELSE ustarts
    /\ upc' = IF ~c.ok THEN "err"
              ELSE IF ~(ux + c.count < pitch(usprite)) /\ urow + 1 = usprite.height THEN "ok"
              ELSE "run"

\* cmd & 0x80 != 0
RleRepeat ==
    /\ upc = "run"
    /\ read_u8(usprite.data, uspos).ok
    /\ read_u8(usprite.data, uspos).v >= 128
    /\ RleTake(unrle_cmd(usprite.data, uspos, ubuf, udpos))
    /\ UNCHANGED <<usprite, ualt>>

RleLiteral ==
    /\ upc = "run"
    /\ read_u8(usprite.data, uspos).ok
    /\ read_u8(usprite.data, uspos).v < 128
    /\ RleTake(unrle_cmd(usprite.data, uspos, ubuf, udpos))
    /\ UNCHANGED <<usprite, ualt>>

\* the read of cmd fails
RleEof ==
    /\ upc = "run"
    /\ ~read_u8(usprite.data, uspos).ok
    /\ RleTake(unrle_cmd(usprite.data, uspos, ubuf, udpos))
    /\ UNCHANGED <<usprite, ualt>>

\* decompress_4bpp_rle on the same data, into a slice of height rows
Decompress4bpp ==
    /\ upc # "idle"
    /\ ualt = NoAlt
    /\ ualt' = decompress_4bpp_rle(usprite.data, usprite.width, usprite.height,
                                   zeros(usprite.height * 2 * div_ceil(usprite.width, 4)))
    /\ UNCHANGED <<usprite, uspos, ubuf, udpos, urow, ux, ustarts, upc>>

RleIdle ==
    /\ usprite = <<>>
    /\ uspos = 0
    /\ ubuf = <<>>
    /\ udpos = 0
    /\ urow = 0
    /\ ux = 0
    /\ ustarts = <<>>
    /\ upc = "idle"
    /\ ualt = NoAlt

----------------------------------------------------------------------------
(* The three palette loops, each run on the same stream from the same      *)
(* palette                                                                 *)

NoLoop == [res |-> "none", pal |-> <<>>, pos |-> 0]

\* the loop of SpriteSheet::apply_palette_update
RunSpriteLoop ==
    /\ estart # <<>>
    /\ eres.sprite = NoLoop
    /\ eres' = [eres EXCEPT !.sprite = sprite_pal_loop(estream, 0, estart)]
    /\ UNCHANGED <<estream, estart>>

\* apply_palette_update of main.rs
RunUpdate ==
    /\ estart # <<>>
    /\ eres.update = NoLoop
    /\ eres' = [eres EXCEPT !.update = apply_palette_update(estream, 0, estart)]
    /\ UNCHANGED <<estream, estart>>

\* the loop inside extract_sprites
RunInlineLoop ==
    /\ estart # <<>>
    /\ eres.inline = NoLoop
    /\ eres' = [eres EXCEPT !.inline = sheet_pal_loop(estream, 0, estart)]
    /\ UNCHANGED <<estream, estart>>

EqIdle ==
    /\ estream = <<>>
    /\ estart = <<>>
    /\ eres = [sprite |-> NoLoop, update |-> NoLoop, inline |-> NoLoop]

----------------------------------------------------------------------------
(* sprite.rs: the bit depth and the pitch of a sprite parsed from a header *)

NoGeom == [bpp |-> 0, pitch |-> 0, done |-> FALSE]

\* Sprite::new_from_slice(id, data), then sprite.bpp() and sprite.pitch()
Measure ==
    /\ gbytes # <<>>
    /\ ~gres.done
    /\ gres' = [bpp |-> bpp(Sprite_new_from_slice(gbytes)),
                pitch |-> pitch(Sprite_new_from_slice(gbytes)),
                done |-> TRUE]
    /\ UNCHANGED gbytes

GeomIdle ==
    /\ gbytes = <<>>
    /\ gres = NoGeom

----------------------------------------------------------------------------
(* Input files.  A container file is built from an entry table and a data  *)
(* region; a compressed resource is built from a command list by the       *)
(* inverse of the decoder's reads.                                         *)

le16(n) == <<n % 256, n \div 256>>
le32(n) == <<n % 256, (n \div 256) % 256, (n \div 65536) % 256, n \div 16777216>>

EntryRecLen == 25

pad(s) == s \o zeros(NameLen - Len(s))

\* "A", "B", the empty name, "A" with bytes after its NUL, an empty name
\* with bytes after its NUL
NameFields == {pad(<<65>>), pad(<<66>>), pad(<<>>), pad(<<65, 0, 66>>), pad(<<0, 65>>)}

EntryRec(field, size, offset) == field \o le32(size) \o le32(offset) \o <<0>>

MaxEntries == 2

\* the data region of the table files
Region == <<17, 34, 51, 68>>

\* (offset into the region, size): inside, running past the end, and empty
\* beyond the end
Places == {<<1, 3>>, <<2, 3>>, <<9, 0>>}

RECURSIVE Flatten(_)
Flatten(ss) == IF ss = <<>> THEN <<>> ELSE Head(ss) \o Flatten(Tail(ss))

TableFile(declared, recs) ==
    LET base == 2 + EntryRecLen * Len(recs)
    IN  le16(declared)
        \o Flatten([i \in 1..Len(recs) |->
                      EntryRec(recs[i][1], recs[i][2][2], base + recs[i][2][1])])
        \o Region

TableFiles ==
    {TableFile(declared, recs) :
        declared \in 0..(MaxEntries + 1),
        recs \in UNION {[1..n -> NameFields \X Places] : n \in 0..MaxEntries}}

\* the commands of a compressed stream
Lit(v) == [k |-> "lit", c |-> 0, d |-> 0, e |-> v]
Short(c, d) == [k |-> "short", c |-> c, d |-> d, e |-> 0]
Long(c, d, e) == [k |-> "long", c |-> c, d |-> d, e |-> e]
Term == Long(0, MaxDistance, 0)

BodyCmds ==
    {Lit(171), Lit(0), Short(0, 1), Short(2, 1), Short(1, 2),
     Long(1, 1, 0), Long(0, 2, 1), Long(2, 3, 0)}

CmdBits(c) ==
    CASE c.k = "lit" -> <<1>>
      [] c.k = "short" -> <<0, 0, c.c \div 2, c.c % 2>>
      [] OTHER -> <<0, 1>>

CmdBytes(c) ==
    CASE c.k = "lit" -> <<c.e>>
      [] c.k = "short" -> <<ShortDistance - c.d>>
      [] OTHER -> le16(8 * (MaxDistance - c.d) + c.c)
                  \o (IF c.c = 0 THEN <<c.e>> ELSE <<>>)

CmdOut(c) ==
    CASE c.k = "lit" -> 1
      [] c.k = "short" -> c.c + 2
      [] OTHER -> (IF c.c = 0 THEN c.e ELSE c.c) + 2

RECURSIVE OutLen(_)
OutLen(cmds) == IF cmds = <<>> THEN 0 ELSE CmdOut(Head(cmds)) + OutLen(Tail(cmds))

\* the k-th 16-bit control word of a bit list, bit 0 first
RECURSIVE ControlWord(_, _, _)
ControlWord(bits, k, j) ==
    IF j = 16 THEN 0
    ELSE (IF 16 * k + j + 1 <= Len(bits) THEN bits[16 * k + j + 1] ELSE 0)
         + 2 * ControlWord(bits, k, j + 1)

\* a control word is stored where the decoder fetches it: before the bytes
\* of the command whose control bits reach into it
RECURSIVE Enc(_, _, _)
Enc(cmds, bitpos, bits) ==
    IF cmds = <<>> THEN <<>>
    ELSE LET nb == Len(CmdBits(Head(cmds)))
             fetch == bitpos % 16 = 0 \/ (bitpos % 16) + nb > 16
             k == (bitpos + nb - 1) \div 16
         IN  (IF fetch THEN le16(ControlWord(bits, k, 0)) ELSE <<>>)
             \o CmdBytes(Head(cmds))
             \o Enc(Tail(cmds), bitpos + nb, bits)

Encode(cmds) == Enc(cmds, 0, Flatten([i \in 1..Len(cmds) |-> CmdBits(cmds[i])]))

\* the 6-byte header: unpacked length, zero byte, packed length, checksum
Header(ulen, plen, zero, delta) ==
    LET five == (ulen % 256) + (ulen \div 256) + zero + (plen % 256) + (plen \div 256)
    IN  le16(ulen) \o <<zero>> \o le16(plen) \o <<(SignatureSum + delta + 1280 - five) % 256>>

\* a resource: hv "exact", "short" or "long" for the declared unpacked
\* length against the stream's output, "mismatch" for a wrong packed
\* length, "badsum" and "nonzero" for a header that fails detection
Resource(body, ending, hv) ==
    LET pl == Encode(IF ending = "term" THEN Append(body, Term) ELSE body)
        n == OutLen(body)
        ulen == CASE hv = "short" -> Max(n - 1, 0) [] hv = "long" -> n + 1 [] OTHER -> n
        plen == Len(pl) + HeaderLen + (IF hv = "mismatch" THEN 1 ELSE 0)
    IN  Header(ulen, plen, IF hv = "nonzero" THEN 1 ELSE 0,
               IF hv = "badsum" THEN 1 ELSE 0) \o pl

MaxCmds == 3

Bodies(n) == UNION {[1..m -> BodyCmds] : m \in 0..n}

Resources ==
    {Resource(body, ending, hv) :
        body \in Bodies(MaxCmds), ending \in {"term", "none"},
        hv \in {"exact", "short", "long"}}
    \cup
    {Resource(body, "term", hv) :
        body \in Bodies(1), hv \in {"mismatch", "badsum", "nonzero"}}

\* a container with the single entry "A" holding the resource
CodecFile(res) ==
    le16(1) \o EntryRec(pad(<<65>>), Len(res), 2 + EntryRecLen) \o res

CodecFiles == {CodecFile(res) : res \in Resources}

----------------------------------------------------------------------------
(* Specification SpecDetect: is_compressed applied to bounded slices *)

MaxHdrLen == 7
HdrBytes == {0, 1, 170, 171, 255}

DetectIdle ==
    /\ hdr = <<>>
    /\ cls = "none"

DetectInit ==
    /\ hdr \in UNION {[1..n -> HdrBytes] : n \in 0..MaxHdrLen}
    /\ cls = "none"

\* the caller's branch on is_compressed(&data) in DatFile::read
Classify ==
    /\ cls = "none"
    /\ cls' = IF is_compressed(hdr) THEN "compressed" ELSE "raw"
    /\ UNCHANGED hdr

DetectNext == Classify /\ UNCHANGED <<datVars, palVars, drawVars, batchVars, sheetVars, bitVars, rleVars, eqVars, geomVars>>

InitDetect == DetectInit /\ DatIdle /\ PalIdle /\ DrawIdle /\ BatchIdle /\ SheetIdle /\ BitIdle /\ RleIdle /\ EqIdle /\ GeomIdle

SpecDetect == InitDetect /\ [][DetectNext]_vars

----------------------------------------------------------------------------
(* Specification Spec: a container file is opened and read *)

DatInit ==
    /\ file \in TableFiles \cup CodecFiles
    /\ pc = "closed"
    /\ entries = <<>>
    /\ fpos = 0
    /\ data = <<>>
    /\ result = NoResult
    /\ rd = Reader0
    /\ w = <<>>
    /\ w_ofs = 0

Init == DatInit /\ DetectIdle /\ PalIdle /\ DrawIdle /\ BatchIdle /\ SheetIdle /\ BitIdle /\ RleIdle /\ EqIdle /\ GeomIdle

Next ==
    \/ Open /\ UNCHANGED <<detVars, palVars, drawVars, batchVars, sheetVars, bitVars, rleVars, eqVars, geomVars>>
    \/ \E name \in ReqNames : ReadRaw(name) /\ UNCHANGED <<detVars, palVars, drawVars, batchVars, sheetVars, bitVars, rleVars, eqVars, geomVars>>
    \/ \E name \in ReqNames : Read(name) /\ UNCHANGED <<detVars, palVars, drawVars, batchVars, sheetVars, bitVars, rleVars, eqVars, geomVars>>
    \/ UnhsqLiteral /\ UNCHANGED <<detVars, palVars, drawVars, batchVars, sheetVars, bitVars, rleVars, eqVars, geomVars>>
    \/ UnhsqLong /\ UNCHANGED <<detVars, palVars, drawVars, batchVars, sheetVars, bitVars, rleVars, eqVars, geomVars>>
    \/ UnhsqShort /\ UNCHANGED <<detVars, palVars, drawVars, batchVars, sheetVars, bitVars, rleVars, eqVars, geomVars>>
    \/ UnhsqEof /\ UNCHANGED <<detVars, palVars, drawVars, batchVars, sheetVars, bitVars, rleVars, eqVars, geomVars>>

Spec == Init /\ [][Next]_vars

\* Specification SpecLive: a container file with one resource is put in
\* place, opened and read, and the loop of unhsq runs on: once DatFile::read
\* has called unhsq, nothing but the loop itself decides whether its next
\* iteration is taken
MaxLiveCmds == 2

\* streams with and without the terminator, for an output buffer of the
\* length they produce, for one that is a byte short and one a byte long
LiveFiles ==
    {CodecFile(Resource(body, ending, hv)) :
        body \in Bodies(MaxLiveCmds), ending \in {"term", "none"},
        hv \in {"exact", "short", "long"}}

Provide ==
    /\ pc = "idle"
    /\ file' \in LiveFiles
    /\ pc' = "closed"
    /\ UNCHANGED <<entries, fpos, data, result, rd, w, w_ofs>>

\* one iteration of the loop, whichever branch it takes: the control bits
\* are read, then the branch is taken
UnhsqLoop ==
    /\ pc = "unhsq"
    /\ \E h \in {cmd_head(payload(data), rd)} :
          \E checks \in BOOLEAN :
             \E out \in {unhsq_step(payload(data), h, w, w_ofs, checks)} :
                Advance(out)
    /\ UNCHANGED <<detVars, palVars, drawVars, batchVars, sheetVars, bitVars, rleVars, eqVars, geomVars>>

InitLive == DatIdle /\ DetectIdle /\ PalIdle /\ DrawIdle /\ BatchIdle /\ SheetIdle /\ BitIdle /\ RleIdle /\ EqIdle /\ GeomIdle

NextLive ==
    \/ Provide /\ UNCHANGED <<detVars, palVars, drawVars, batchVars, sheetVars, bitVars, rleVars, eqVars, geomVars>>
    \/ Open /\ UNCHANGED <<detVars, palVars, drawVars, batchVars, sheetVars, bitVars, rleVars, eqVars, geomVars>>
    \/ \E name \in ReqNames : Read(name) /\ UNCHANGED <<detVars, palVars, drawVars, batchVars, sheetVars, bitVars, rleVars, eqVars, geomVars>>
    \/ UnhsqLiteral /\ UNCHANGED <<detVars, palVars, drawVars, batchVars, sheetVars, bitVars, rleVars, eqVars, geomVars>>
    \/ UnhsqLong /\ UNCHANGED <<detVars, palVars, drawVars, batchVars, sheetVars, bitVars, rleVars, eqVars, geomVars>>
    \/ UnhsqShort /\ UNCHANGED <<detVars, palVars, drawVars, batchVars, sheetVars, bitVars, rleVars, eqVars, geomVars>>
    \/ UnhsqEof /\ UNCHANGED <<detVars, palVars, drawVars, batchVars, sheetVars, bitVars, rleVars, eqVars, geomVars>>

SpecLive == InitLive /\ [][NextLive]_vars /\ WF_vars(UnhsqLoop)


----------------------------------------------------------------------------
(* Specification SpecPal: apply_palette_update on bounded sprite sheets. *)
(* A sheet is the u16 toc_pos, the palette records, and a table of         *)
(* contents of one sprite (the u16 2), which SpriteSheet::new accepts.     *)

\* n RGB triples of 6-bit channel values
Triples(n) == [j \in 1..(3 * n) |-> 1 + (j % 63)]

\* (index, count, triples supplied)
RecordKinds ==
    {<<10, 0, 256>>, <<10, 0, 246>>, <<254, 2, 2>>, <<255, 2, 2>>, <<0, 1, 1>>,
     <<1, 0, 1>>, <<1, 0, 0>>, <<250, 6, 6>>, <<5, 3, 2>>}

RecordBytes(k) == <<k[1], k[2]>> \o Triples(k[3])

MaxRecords == 2

PalStreams ==
    {Flatten([i \in 1..Len(ks) |-> RecordBytes(ks[i])]) \o end :
        ks \in UNION {[1..n -> RecordKinds] : n \in 0..MaxRecords},
        end \in {<<255, 255>>, <<>>}}

Sheet(ps) == le16(2 + Len(ps)) \o ps \o <<2, 0>>

PalInit ==
    /\ pdata \in {Sheet(ps) : ps \in PalStreams}
    /\ ppos = 0
    /\ pal = Pal_new
    /\ ppc = "start"
    /\ prec = <<>>

PalNext ==
    \/ PalBegin /\ UNCHANGED <<detVars, datVars, drawVars, batchVars, sheetVars, bitVars, rleVars, eqVars, geomVars>>
    \/ PalSkip /\ UNCHANGED <<detVars, datVars, drawVars, batchVars, sheetVars, bitVars, rleVars, eqVars, geomVars>>
    \/ PalEnd /\ UNCHANGED <<detVars, datVars, drawVars, batchVars, sheetVars, bitVars, rleVars, eqVars, geomVars>>
    \/ PalSet /\ UNCHANGED <<detVars, datVars, drawVars, batchVars, sheetVars, bitVars, rleVars, eqVars, geomVars>>
    \/ PalEof /\ UNCHANGED <<detVars, datVars, drawVars, batchVars, sheetVars, bitVars, rleVars, eqVars, geomVars>>

InitPal == PalInit /\ DetectIdle /\ DatIdle /\ DrawIdle /\ BatchIdle /\ SheetIdle /\ BitIdle /\ RleIdle /\ EqIdle /\ GeomIdle

SpecPal == InitPal /\ [][PalNext]_vars

----------------------------------------------------------------------------
(* Specification SpecDraw: sprites are drawn into a small frame *)

SpriteBytes(width, height, pal_offset, rle, body) ==
    le16(width + (IF rle THEN 32768 ELSE 0)) \o <<height, pal_offset>> \o body

Sprites ==
    {SpriteBytes(2, 1, po, FALSE, <<b1, b2>>) :
        po \in {254, 255}, b1 \in {0, 7}, b2 \in {0, 7}}
    \cup {SpriteBytes(2, 2, po, FALSE, <<0, 7, 5, 0>>) : po \in {254, 255}}
    \cup {SpriteBytes(2, 1, 255, FALSE, <<7>>), SpriteBytes(0, 0, 254, FALSE, <<>>)}
    \cup {SpriteBytes(3, 2, po, FALSE, <<33, 3, 48, 0>>) : po \in {0, 16, 253}}
    \cup {SpriteBytes(2, 1, po, FALSE, <<b, 0>>) : po \in {0, 16, 253}, b \in {32, 3, 33}}
    \cup {SpriteBytes(2, 1, 254, TRUE, body) :
            body \in {<<1, 7, 0>>, <<255, 7>>, <<254, 7>>, <<0, 7, 0, 0>>, <<1, 7>>}}
    \cup {SpriteBytes(2, 2, 255, TRUE, <<254, 7, 255, 5>>),
          SpriteBytes(3, 1, 0, TRUE, <<1, 33, 3>>),
          SpriteBytes(3, 1, 16, TRUE, <<255, 33>>)}

Args(x, y, flip_x, flip_y, pal_offset) ==
    [x |-> x, y |-> y, flip_x |-> flip_x, flip_y |-> flip_y, pal_offset |-> pal_offset]

DrawArgs ==
    {Args(0, 0, FALSE, FALSE, 0), Args(0, 0, FALSE, FALSE, 1),
     Args(0, 0, FALSE, FALSE, 254), Args(0, 0, FALSE, FALSE, 255),
     Args(1, 0, FALSE, FALSE, 0), Args(0, 1, FALSE, FALSE, 0),
     Args(0, 0, TRUE, FALSE, 0), Args(0, 0, FALSE, TRUE, 0),
     Args(1, 1, TRUE, TRUE, 255), Args(2, 0, FALSE, FALSE, 0)}

PixelArgs == {<<0, 0, 9>>, <<1, 1, 9>>, <<2, 0, 9>>, <<0, 2, 9>>}

FrameSizes == {<<2, 2>>, <<1, 3>>}

DrawInit ==
    /\ sprite \in {Sprite_new_from_slice(b) : b \in Sprites}
    /\ frame = Frame_new(2, 2)
    /\ dlast = NoCall
    /\ dops = 0

InitDraw == DrawInit /\ DetectIdle /\ DatIdle /\ PalIdle /\ BatchIdle /\ SheetIdle /\ BitIdle /\ RleIdle /\ EqIdle /\ GeomIdle

NextDraw ==
    \/ \E s \in FrameSizes : FrameNew(s[1], s[2]) /\ UNCHANGED <<detVars, datVars, palVars, batchVars, sheetVars, bitVars, rleVars, eqVars, geomVars>>
    \/ \E p \in PixelArgs : WritePixel(p[1], p[2], p[3]) /\ UNCHANGED <<detVars, datVars, palVars, batchVars, sheetVars, bitVars, rleVars, eqVars, geomVars>>
    \/ Clear /\ UNCHANGED <<detVars, datVars, palVars, batchVars, sheetVars, bitVars, rleVars, eqVars, geomVars>>
    \/ \E a \in DrawArgs : Draw(a) /\ UNCHANGED <<detVars, datVars, palVars, batchVars, sheetVars, bitVars, rleVars, eqVars, geomVars>>

SpecDraw == InitDraw /\ [][NextDraw]_vars

----------------------------------------------------------------------------
(* Specification SpecBatch: a container file is opened and extract_all runs *)

InitBatch == DatInit /\ DetectIdle /\ PalIdle /\ DrawIdle /\ BatchIdle /\ SheetIdle /\ BitIdle /\ RleIdle /\ EqIdle /\ GeomIdle

NextBatch ==
    \/ Open /\ UNCHANGED <<detVars, palVars, drawVars, batchVars, sheetVars, bitVars, rleVars, eqVars, geomVars>>
    \/ ExtractAllBegin /\ UNCHANGED <<detVars, palVars, drawVars, sheetVars, bitVars, rleVars, eqVars, geomVars>>
    \/ ExtractAllStep /\ UNCHANGED <<detVars, palVars, drawVars, sheetVars, bitVars, rleVars, eqVars, geomVars>>
    \/ ExtractAllEnd /\ UNCHANGED <<detVars, palVars, drawVars, sheetVars, bitVars, rleVars, eqVars, geomVars>>

SpecBatch == InitBatch /\ [][NextBatch]_vars

----------------------------------------------------------------------------
(* Specification SpecSheet: extract_sprites and SpriteSheet::new run on a  *)
(* sprite-sheet resource                                                   *)

MaxSprites == 2

\* the bytes between the first word and the table of contents: none, an
\* empty palette, one colour, a skipped record, a record that runs past the
\* palette, and a record of 256 colours that the data cannot hold
PalBlocks ==
    {<<>>, <<255, 255>>, <<1, 1, 9, 9, 9, 255, 255>>, <<0, 1, 0, 0, 0, 255, 255>>,
     <<255, 2, 1, 1, 1, 2, 2, 2>>, <<0, 0>>}

\* sub-resources: 8 and 4 bits per pixel, the four kinds of bad geometry, a
\* body that is too short, and a run-length body that ends early
SheetSprites ==
    {SpriteBytes(2, 1, 255, FALSE, <<7, 5>>), SpriteBytes(2, 1, 0, FALSE, <<33, 0>>),
     SpriteBytes(0, 1, 254, FALSE, <<>>), SpriteBytes(2, 0, 254, FALSE, <<>>),
     SpriteBytes(321, 1, 255, FALSE, <<7>>), SpriteBytes(2, 201, 255, FALSE, <<7>>),
     SpriteBytes(2, 1, 255, FALSE, <<7>>), SpriteBytes(2, 1, 254, TRUE, <<1, 7>>)}

\* a sheet whose table holds the given offsets
RawSheet(pb, offs, bodies) ==
    le16(2 + Len(pb)) \o pb \o Flatten([i \in 1..Len(offs) |-> le16(offs[i])])
    \o Flatten(bodies)

\* a sheet whose table points at its sub-resources
GoodSheet(pb, bodies) ==
    RawSheet(pb, [i \in 1..Len(bodies) |->
                    2 * Len(bodies) + Len(Flatten(SubSeq(bodies, 1, i - 1)))],
             bodies)

\* tables with no sub-resource, too many, equal or decreasing offsets, and
\* an offset past the data
BadTocs == {<<0>>, <<1>>, <<2002>>, <<4, 4>>, <<4, 3>>, <<4, 200>>}

SheetInputs ==
    {GoodSheet(pb, bodies) :
        pb \in PalBlocks,
        bodies \in UNION {[1..n -> SheetSprites] : n \in 1..MaxSprites}}
    \cup {RawSheet(pb, offs, <<SpriteBytes(2, 1, 255, FALSE, <<7, 5>>),
                              SpriteBytes(2, 1, 255, FALSE, <<7, 5>>)>>) :
            pb \in {<<>>, <<255, 255>>}, offs \in BadTocs}
    \cup {<<>>, <<2>>, le16(50), le16(2) \o le16(4)}

SheetInit ==
    /\ sdata \in SheetInputs
    /\ spc = "start"
    /\ soffs = <<>>
    /\ sidx = 0
    /\ slog = <<>>
    /\ spal = <<>>
    /\ sret = NoReturn
    /\ ssheet = NoSheet

InitSheet == SheetInit /\ DetectIdle /\ DatIdle /\ PalIdle /\ DrawIdle /\ BatchIdle /\ BitIdle /\ RleIdle /\ EqIdle /\ GeomIdle

NextSheet ==
    \/ SheetToc /\ UNCHANGED <<detVars, datVars, palVars, drawVars, batchVars, bitVars, rleVars, eqVars, geomVars>>
    \/ SheetPal /\ UNCHANGED <<detVars, datVars, palVars, drawVars, batchVars, bitVars, rleVars, eqVars, geomVars>>
    \/ SheetSprite /\ UNCHANGED <<detVars, datVars, palVars, drawVars, batchVars, bitVars, rleVars, eqVars, geomVars>>
    \/ SheetEnd /\ UNCHANGED <<detVars, datVars, palVars, drawVars, batchVars, bitVars, rleVars, eqVars, geomVars>>
    \/ SheetNew /\ UNCHANGED <<detVars, datVars, palVars, drawVars, batchVars, bitVars, rleVars, eqVars, geomVars>>

SpecSheet == InitSheet /\ [][NextSheet]_vars

----------------------------------------------------------------------------
(* Specification SpecBits: read_bit, read_u8 and read_le_u16 are called on *)
(* one Reader in any order                                                 *)

MaxSrcLen == 8

BitPatterns == {<<165, 90, 1>>, <<0>>, <<255>>, <<1, 128, 0>>, <<170, 85>>}

BitSources ==
    {[i \in 1..MaxSrcLen |-> pat[((i - 1) % Len(pat)) + 1]] : pat \in BitPatterns}

BitInit ==
    /\ qsrc \in BitSources
    /\ qrd = Reader0
    /\ qn = 0
    /\ qfrom = 0
    /\ qlast = NoRead
    /\ qpc = "run"

InitBits == BitInit /\ DetectIdle /\ DatIdle /\ PalIdle /\ DrawIdle /\ BatchIdle /\ SheetIdle /\ RleIdle /\ EqIdle /\ GeomIdle

NextBits ==
    \/ ReaderReadBit /\ UNCHANGED <<detVars, datVars, palVars, drawVars, batchVars, sheetVars, rleVars, eqVars, geomVars>>
    \/ ReaderReadU8 /\ UNCHANGED <<detVars, datVars, palVars, drawVars, batchVars, sheetVars, rleVars, eqVars, geomVars>>
    \/ ReaderReadLeU16 /\ UNCHANGED <<detVars, datVars, palVars, drawVars, batchVars, sheetVars, rleVars, eqVars, geomVars>>

SpecBits == InitBits /\ [][NextBits]_vars

----------------------------------------------------------------------------
(* Specification SpecRle: unrle decodes the data of a run-length sprite    *)

MaxRleCmds == 3

\* repeats of 3 and of 2 bytes, literal runs of 1 and of 2 bytes, and two
\* commands whose bytes are missing
RleCmds == {<<254, 7>>, <<255, 5>>, <<0, 9>>, <<1, 8, 6>>, <<1, 8>>, <<255>>}

RleBodies == {Flatten(cs) : cs \in UNION {[1..n -> RleCmds] : n \in 0..MaxRleCmds}}

RleSprites ==
    {SpriteBytes(width, height, po, TRUE, body) :
        width \in {0, 2, 5}, height \in 0..2, po \in {0, 254}, body \in RleBodies}

RleInit ==
    /\ usprite \in {Sprite_new_from_slice(b) : b \in RleSprites}
    /\ uspos = 0
    /\ ubuf = <<>>
    /\ udpos = 0
    /\ urow = 0
    /\ ux = 0
    /\ ustarts = <<>>
    /\ upc = "start"
    /\ ualt = NoAlt

InitRle == RleInit /\ DetectIdle /\ DatIdle /\ PalIdle /\ DrawIdle /\ BatchIdle /\ SheetIdle /\ BitIdle /\ EqIdle /\ GeomIdle

NextRle ==
    \/ RleBegin /\ UNCHANGED <<detVars, datVars, palVars, drawVars, batchVars, sheetVars, bitVars, eqVars, geomVars>>
    \/ RleRepeat /\ UNCHANGED <<detVars, datVars, palVars, drawVars, batchVars, sheetVars, bitVars, eqVars, geomVars>>
    \/ RleLiteral /\ UNCHANGED <<detVars, datVars, palVars, drawVars, batchVars, sheetVars, bitVars, eqVars, geomVars>>
    \/ RleEof /\ UNCHANGED <<detVars, datVars, palVars, drawVars, batchVars, sheetVars, bitVars, eqVars, geomVars>>
    \/ Decompress4bpp /\ UNCHANGED <<detVars, datVars, palVars, drawVars, batchVars, sheetVars, bitVars, eqVars, geomVars>>

SpecRle == InitRle /\ [][NextRle]_vars

----------------------------------------------------------------------------
(* Specification SpecPalEq: the three palette loops on one delta stream    *)

\* records: one colour, two colours, the two-byte pairs (1, 0) and (0, 1)
\* followed by three bytes, 256 colours announced by count 0
DeltaRecords ==
    {<<5, 1, 9, 8, 7>>, <<16, 2, 1, 2, 3, 4, 5, 6>>, <<1, 0, 9, 8, 7>>,
     <<0, 1, 9, 8, 7>>, <<7, 0>> \o Triples(256)}

DeltaStreams ==
    {Flatten(rs) \o end :
        rs \in UNION {[1..n -> DeltaRecords] : n \in 0..MaxRecords},
        end \in {<<255, 255>>, <<255, 255, 1, 2>>, <<>>}}

EqInit ==
    /\ estream \in DeltaStreams
    /\ estart \in {Pal_new, Pal_grey}
    /\ eres = [sprite |-> NoLoop, update |-> NoLoop, inline |-> NoLoop]

InitPalEq == EqInit /\ DetectIdle /\ DatIdle /\ PalIdle /\ DrawIdle /\ BatchIdle /\ SheetIdle /\ BitIdle /\ RleIdle /\ GeomIdle

NextPalEq ==
    \/ RunSpriteLoop /\ UNCHANGED <<detVars, datVars, palVars, drawVars, batchVars, sheetVars, bitVars, rleVars, geomVars>>
    \/ RunUpdate /\ UNCHANGED <<detVars, datVars, palVars, drawVars, batchVars, sheetVars, bitVars, rleVars, geomVars>>
    \/ RunInlineLoop /\ UNCHANGED <<detVars, datVars, palVars, drawVars, batchVars, sheetVars, bitVars, rleVars, geomVars>>

SpecPalEq == InitPalEq /\ [][NextPalEq]_vars

----------------------------------------------------------------------------
(* Specification SpecGeom: bpp and pitch for every width and the palette   *)
(* offsets around the change of bit depth                                  *)

WidthMask == 511

GeomOffsets == {0, 1, 16, 128, 252, 253, 254, 255}

\* the flag bits above the width: none, and the run-length flag
GeomFlags == {0, 32768}

GeomInit ==
    /\ gbytes \in {le16(width + flags) \o <<1, po>> :
                     width \in 0..WidthMask, flags \in GeomFlags, po \in GeomOffsets}
    /\ gres = NoGeom

InitGeom == GeomInit /\ DetectIdle /\ DatIdle /\ PalIdle /\ DrawIdle /\ BatchIdle /\ SheetIdle /\ BitIdle /\ RleIdle /\ EqIdle

NextGeom == Measure /\ UNCHANGED <<detVars, datVars, palVars, drawVars, batchVars, sheetVars, bitVars, rleVars, eqVars>>

SpecGeom == InitGeom /\ [][NextGeom]_vars

----------------------------------------------------------------------------
(* Properties.  The helpers below restate the file formats from the bytes, *)
(* without the operators of the model.                                     *)

\* the signature read off six bytes
Signed(d) ==
    /\ Len(d) >= 6
    /\ (d[1] + d[2] + d[3] + d[4] + d[5] + d[6]) % 256 = 171
    /\ d[3] = 0

UnpackedField(d) == d[1] + 256 * d[2]
PackedField(d) == d[4] + 256 * d[5]

\* the last call was op(name) and the table has an entry of that name: the
\* first one is entries[i]
Used(op, i) ==
    /\ result.op = op
    /\ i \in 1..Len(entries)
    /\ entries[i].name = result.name
    /\ \A j \in 1..(i - 1) : entries[j].name # result.name

\* the bytes of the file at offset .. offset + size - 1
Stored(e) == [j \in 1..e.size |-> file[e.offset + j]]

Inside(e) == e.size = 0 \/ e.offset + e.size <= Len(file)

\* read returned the decoder's output
Decoded == result.op = "read" /\ result.via = "unhsq" /\ result.kind = "ok"

\* C1: is_compressed answers "compressed" exactly for a slice of at least 6
\* bytes whose first 6 bytes sum to 0xAB modulo 256 and whose byte 2 is 0;
\* every other slice is raw, and bytes after the sixth do not matter.
C1_DetectionRule ==
    cls # "none" =>
        /\ cls \in {"compressed", "raw"}
        /\ (cls = "compressed") <=> Signed(hdr)
        /\ \A b \in HdrBytes :
              Len(hdr) > 6 => (is_compressed([hdr EXCEPT ![7] = b]) <=> Signed(hdr))

\* a 7-byte slice classified as compressed whose byte sum wraps past 255
C1_Witness ==
    /\ cls = "compressed"
    /\ Len(hdr) = 7
    /\ hdr[1] + hdr[2] + hdr[3] + hdr[4] + hdr[5] + hdr[6] > 256
    /\ hdr[7] # 0

\* C2: a stream that would produce more than unpacked_length bytes makes
\* read return a DecompressionOverrun error value to the caller: the
\* process is not aborted.
C2_OverrunIsReported ==
    (result.op = "read" /\ result.why = "index_write") =>
        (pc = "open" /\ result.kind = "DecompressionOverrun")

\* C5: read of a resource whose first 6 bytes carry the signature but whose
\* packed_length field differs from its length returns Ok with the bytes
\* read_raw read, unmodified, without entering the decoder.
C5_MismatchReturnsRaw ==
    \A i \in 1..Len(entries) :
        (Used("read", i) /\ Inside(entries[i]) /\ Signed(Stored(entries[i]))
            /\ PackedField(Stored(entries[i])) # entries[i].size) =>
            /\ pc = "open"
            /\ result.kind = "ok"
            /\ result.bytes = Stored(entries[i])
            /\ w = <<>>
            /\ w_ofs = 0
            /\ rd = Reader0

\* a signed resource with a wrong packed_length was read
C5_Witness ==
    /\ result.op = "read"
    /\ result.kind = "ok"
    /\ Signed(result.bytes)
    /\ PackedField(result.bytes) # Len(result.bytes)
    /\ Len(result.bytes) > 6

\* C6 as stated: the output of a decompressing read is classified as raw.
C6_OutputIsRaw == Decoded => ~is_compressed(result.bytes)

\* C6 amended: read decodes only bytes that carry the signature, in one
\* pass, and returns the decoder's buffer as it is; that output is
\* classified as raw unless its own first 6 bytes carry the signature.
C6_SinglePass ==
    (result.op = "read" /\ result.via = "unhsq") =>
        /\ Signed(data)
        /\ \E i \in 1..Len(entries) : Used("read", i) /\ data = Stored(entries[i])
        /\ Decoded => /\ result.bytes = w
                      /\ pc = "open"
                      /\ is_compressed(result.bytes) <=> Signed(result.bytes)

\* a decompressing read whose output itself carries the signature
C6_Witness == Decoded /\ Signed(result.bytes) /\ is_compressed(result.bytes)

\* C7: read of a signed resource whose packed_length equals its size enters
\* the decoder, and what it returns has exactly unpacked_length bytes.
C7_UnpackedLength ==
    \A i \in 1..Len(entries) :
        (Used("read", i) /\ Inside(entries[i]) /\ Signed(Stored(entries[i]))
            /\ PackedField(Stored(entries[i])) = entries[i].size) =>
            /\ result.via = "unhsq"
            /\ result.kind \in {"none", "ok", "panic"}
            /\ result.kind = "ok" =>
                  Len(result.bytes) = UnpackedField(Stored(entries[i]))

\* a decompressing read returned 4 bytes of which the decoder wrote 3
C7_Witness == Decoded /\ Len(result.bytes) = 4 /\ w_ofs = 3

\* the payload src is k literals and the terminator: control bits 1 (k
\* times), 0, 1 in the first word, the k literal bytes, a word with length
\* code 0 and a length byte 0
LiteralOnly(src, k) ==
    /\ Len(src) >= k + 5
    /\ (src[1] + 256 * src[2]) % (2 ^ (k + 2)) = (2 ^ k - 1) + 2 ^ (k + 1)
    /\ src[k + 3] % 8 = 0
    /\ src[k + 5] = 0

MaxLiterals == 14

\* C8: a stream of k literal commands and the terminator stores the n-th
\* literal byte at output index n - 1 and ends at write position k (it is
\* decoded without a panic when the output slice has room for k bytes).
C8_LiteralsInOrder ==
    \A k \in 0..MaxLiterals :
        (result.op = "read" /\ result.via = "unhsq"
            /\ LiteralOnly(payload(data), k)) =>
            /\ Decoded =>
                  /\ w_ofs = k
                  /\ \A n \in 1..k : result.bytes[n] = payload(data)[n + 2]
            /\ result.kind = "panic" => UnpackedField(data) < k
            /\ pc = "unhsq" =>
                  /\ w_ofs <= k
                  /\ \A n \in 1..w_ofs : w[n] = payload(data)[n + 2]

\* three literals were decoded to the end
C8_Witness ==
    /\ Decoded
    /\ LiteralOnly(payload(data), 3)
    /\ w_ofs = 3
    /\ result.bytes[1] # result.bytes[3]

\* the i-th record of the entry table, and its name: the bytes of the name
\* field before its first NUL
Field(i) == SubSeq(file, 2 + 25 * (i - 1) + 1, 2 + 25 * (i - 1) + 16)
NameOf(i) ==
    LET f == Field(i)
        nul == {j \in 1..16 : f[j] = 0}
        end == IF nul = {} THEN 17 ELSE CHOOSE j \in nul : \A m \in nul : j <= m
    IN  SubSeq(f, 1, end - 1)
U32At(p) == file[p + 1] + 256 * file[p + 2] + 65536 * file[p + 3] + 16777216 * file[p + 4]
Declared == file[1] + 256 * file[2]

\* the first record with an empty name among the first n, or n + 1
FirstEmpty(n) ==
    IF \E i \in 1..n : NameOf(i) = <<>>
    THEN CHOOSE i \in 1..n : NameOf(i) = <<>> /\ \A j \in 1..(i - 1) : NameOf(j) # <<>>
    ELSE n + 1

\* C9: open stops at the first entry whose name decodes to the empty
\* string: the entries are exactly the records before it, in file order,
\* whatever count the file declares.
C9_StopsAtEmptyName ==
    pc \in {"open", "unhsq", "abort"} =>
        LET stop == FirstEmpty(Declared)
        IN  /\ Len(entries) = stop - 1
            /\ \A i \in 1..(stop - 1) :
                  entries[i] = [name |-> NameOf(i),
                                size |-> U32At(2 + 25 * (i - 1) + 16),
                                offset |-> U32At(2 + 25 * (i - 1) + 20)]

\* a file declaring 2 entries whose second name is empty was opened
C9_Witness ==
    /\ pc = "open"
    /\ Declared = 2
    /\ Len(file) >= 52
    /\ NameOf(1) # <<>>
    /\ NameOf(2) = <<>>
    /\ Len(entries) = 1

\* C10 as stated: read_raw of an entry whose offset + size exceeds the
\* length of the file fails.
C10_PastEndFails ==
    \A i \in 1..Len(entries) :
        (Used("read_raw", i) /\ entries[i].offset + entries[i].size > Len(file)) =>
            result.kind \notin {"ok", "none"}

\* C10 amended: read_raw of an entry of size > 0 whose offset + size
\* exceeds the length of the file returns an IOError value after open
\* succeeded, with no bytes; in every other case it returns exactly size
\* bytes, those at offset .. offset + size - 1 (none for size 0, wherever
\* the offset lies).
C10_ShortReadIsError ==
    \A i \in 1..Len(entries) :
        Used("read_raw", i) =>
            /\ pc = "open"
            /\ IF entries[i].size > 0 /\ entries[i].offset + entries[i].size > Len(file)
               THEN result.kind = "IOError" /\ result.bytes = <<>>
               ELSE /\ result.kind = "ok"
                    /\ Len(result.bytes) = entries[i].size
                    /\ \A j \in 1..entries[i].size :
                          result.bytes[j] = file[entries[i].offset + j]

\* read_raw failed on an entry that runs past the end of the file
C10_Witness ==
    \E i \in 1..Len(entries) :
        /\ Used("read_raw", i)
        /\ entries[i].size > 0
        /\ entries[i].offset < Len(file)
        /\ entries[i].offset + entries[i].size > Len(file)
        /\ result.kind = "IOError"


\* The bytes draw takes the pixels of the sprite from
DrawSource == IF sprite.rle THEN unrle(sprite).buf ELSE sprite.data

\* The mode of the last draw: the draw-time offset if non-zero, else the
\* offset embedded in the sprite
EffectiveMode == IF dlast.a.pal_offset # 0 THEN dlast.a.pal_offset ELSE sprite.pal_offset

\* C3: after an 8bpp draw, every sprite pixel that lands inside the frame
\* holds the source value when that value is non-zero or the effective mode
\* is 255 (zero is opaque in mode 255), and holds what the frame held before
\* the draw when the source value is zero and the mode is not 255 (zero is
\* transparent).
C3_ZeroOpaqueInMode255 ==
    (dlast.op = "draw" /\ dlast.res = "ok" /\ bpp(sprite) = 8) =>
        \A sy \in 0..(sprite.height - 1), sx \in 0..(sprite.width - 1) :
            LET c == DrawSource[sy * pitch(sprite) + sx + 1]
                dx == dst_pos(dlast.a.x, dlast.a.flip_x, sprite.width, sx)
                dy == dst_pos(dlast.a.y, dlast.a.flip_y, sprite.height, sy)
                at == dy * frame.width + dx + 1
            IN  (dx < frame.width /\ dy < frame.height) =>
                    IF c # 0 \/ EffectiveMode = 255
                    THEN frame.data[at] = c
                    ELSE frame.data[at] = dlast.before[at]

\* The last record read is a set record whose index + count exceeds 256
\* (prec holds the count with 0 already read as 256)
Overflowing == prec # <<>> /\ prec # <<255, 255>> /\ prec[1] + prec[2] > 256

\* C4: once a delta record whose offset + count exceeds 256 has been
\* applied, the palette update has returned an error to its caller.
C4_OverflowRaisesError == Overflowing => ppc = "err"


\* the entries of the requested name, as indices into the table
Named(name) == {i \in 1..Len(entries) : entries[i].name = name}

\* C11: a call of read or read_raw leaves the entry list as it is; when no
\* entry has the requested name it returns EntryNotFound with the file
\* position where it was and no bytes read; otherwise it seeks to and reads
\* the first entry of that name in table order, whatever later entries of
\* the same name say.  The steps inside the decoder leave the list alone too.
C11_FirstMatch ==
    [][/\ pc # "closed" => entries' = entries
       /\ pc = "open" =>
            LET named == Named(result'.name)
            IN  IF named = {}
                THEN /\ result'.kind = "EntryNotFound"
                     /\ fpos' = fpos
                     /\ data' = <<>>
                     /\ result'.bytes = <<>>
                ELSE LET e == entries[CHOOSE i \in named : \A j \in named : i <= j]
                     IN  /\ result'.kind # "EntryNotFound"
                         /\ IF Inside(e)
                            THEN data' = Stored(e) /\ fpos' = e.offset + e.size
                            ELSE result'.kind = "IOError" /\ data' = <<>>
                         /\ (result'.op = "read_raw" /\ Inside(e)) =>
                               (result'.kind = "ok" /\ result'.bytes = Stored(e))
      ]_vars

\* read_raw returned the 3 bytes of the first of two entries of the
\* requested name, the second being an empty entry
C11_Witness ==
    /\ result.op = "read_raw"
    /\ result.kind = "ok"
    /\ Len(entries) = 2
    /\ entries[1].name = result.name
    /\ entries[2].name = result.name
    /\ entries[1].size = 3
    /\ entries[2].size = 0
    /\ result.bytes = Stored(entries[1])

\* The palette offset of the last draw: the draw-time offset if non-zero,
\* else the offset embedded in the sprite
EffectiveOffset == IF dlast.a.pal_offset # 0 THEN dlast.a.pal_offset ELSE sprite.pal_offset

\* where sprite pixel (sx, sy) of the last draw lands: <<dx, dy>>
Lands(sx, sy) ==
    <<dlast.a.x + (IF dlast.a.flip_x THEN sprite.width - sx - 1 ELSE sx),
      dlast.a.y + (IF dlast.a.flip_y THEN sprite.height - sy - 1 ELSE sy)>>

\* the 4-bit value of pixel (sx, sy) in a raw 4bpp payload: byte
\* sy * pitch + sx / 2 with pitch = 2 * ceil(width / 4), low half for even sx
Nibble4(sx, sy) ==
    LET b == sprite.data[sy * (2 * ((sprite.width + 3) \div 4)) + (sx \div 2) + 1]
    IN  IF sx % 2 = 0 THEN b % 16 ELSE b \div 16

\* C12: after a raw 4bpp draw, every sprite pixel (sx, sy) that lands inside
\* the frame shows the nibble of payload byte sy * pitch + sx / 2 (low for
\* even sx, high for odd sx): a zero nibble leaves the pixel as it was
\* before the draw, a non-zero nibble is written, shifted by the palette
\* offset.
C12_Nibbles ==
    (dlast.op = "draw" /\ dlast.res = "ok" /\ sprite.pal_offset < 254 /\ ~sprite.rle) =>
        \A sy \in 0..(sprite.height - 1), sx \in 0..(sprite.width - 1) :
            LET n == Nibble4(sx, sy)
                d == Lands(sx, sy)
                at == d[2] * frame.width + d[1] + 1
            IN  (d[1] < frame.width /\ d[2] < frame.height) =>
                    IF n = 0 THEN frame.data[at] = dlast.before[at]
                    ELSE n + EffectiveOffset < 256 =>
                            frame.data[at] = n + EffectiveOffset

\* a raw 4bpp sprite of width 3 and height 2 was drawn: a zero nibble left a
\* 9 in the frame and the high nibble of byte 0 was written next to the low
C12_Witness ==
    /\ dlast.op = "draw"
    /\ dlast.res = "ok"
    /\ sprite.pal_offset < 254
    /\ ~sprite.rle
    /\ sprite.width = 3
    /\ sprite.height = 2
    /\ dlast.a.x = 0 /\ dlast.a.y = 0 /\ ~dlast.a.flip_x
    /\ \E sy \in 0..1 :
          /\ Nibble4(0, sy) = 0
          /\ Lands(0, sy) = <<0, 0>>
          /\ dlast.before[1] = 9
          /\ frame.data[1] = 9
    /\ \E sy \in 0..1 :
          /\ Lands(1, sy) = <<1, 0>>
          /\ Nibble4(0, sy) # Nibble4(1, sy)
          /\ Nibble4(1, sy) # 0
          /\ frame.data[2] = Nibble4(1, sy) + EffectiveOffset

\* the draw reads past the end of its source bytes
SourceShort ==
    \E sy \in 0..(sprite.height - 1), sx \in 0..(sprite.width - 1) :
        sy * pitch(sprite) + (IF bpp(sprite) = 8 THEN sx ELSE sx \div 2)
            >= Len(DrawSource)

\* a non-zero nibble plus the palette offset does not fit a byte
ColourOverflow ==
    /\ bpp(sprite) = 4
    /\ \E i \in 1..Len(DrawSource) :
          \/ DrawSource[i] % 16 # 0 /\ (DrawSource[i] % 16) + EffectiveOffset >= 256
          \/ DrawSource[i] \div 16 # 0 /\ (DrawSource[i] \div 16) + EffectiveOffset >= 256

\* C13: the buffer of the frame always has width * height bytes; a
\* write_pixel outside the frame changes nothing, one inside changes only
\* its pixel; a draw whose destination lies outside the frame changes
\* nothing, and no call fails because of where its destination lies (a draw
\* fails only on its source bytes or on a colour that does not fit a byte).
C13_Clipped ==
    /\ drawVars # <<<<>>, <<>>, NoCall, 0>> => Len(frame.data) = frame.width * frame.height
    /\ dlast.op = "write_pixel" =>
          LET x == dlast.a[1]
              y == dlast.a[2]
          IN  /\ dlast.res = "ok"
              /\ Len(dlast.before) = Len(frame.data)
              /\ IF x < frame.width /\ y < frame.height
                 THEN \A i \in 1..Len(frame.data) :
                          frame.data[i] = IF i = y * frame.width + x + 1
                                          THEN dlast.a[3] ELSE dlast.before[i]
                 ELSE frame.data = dlast.before
    /\ dlast.op \in {"new", "clear"} => dlast.res = "ok"
    /\ dlast.op = "draw" =>
          /\ Len(dlast.before) = Len(frame.data)
          /\ (dlast.a.x >= frame.width \/ dlast.a.y >= frame.height) =>
                frame.data = dlast.before
          /\ dlast.res = "panic" => (SourceShort \/ ColourOverflow)
          /\ dlast.res = "err" => (sprite.rle /\ ~unrle(sprite).ok)

\* write_pixel with x = width on a frame that holds a 9: the index
\* y * width + x is that of the first pixel of the next row, which kept its
\* value, as did the 9
C13_Witness ==
    /\ dlast.op = "write_pixel"
    /\ dlast.a[1] = frame.width
    /\ dlast.a[2] + 1 < frame.height
    /\ frame.data = dlast.before
    /\ \E i \in 1..Len(frame.data) : frame.data[i] = 9
    /\ frame.data[dlast.a[2] * frame.width + dlast.a[1] + 1] = 0

\* C14: when extract_all has ended, however it ended, extract was called
\* for every entry of the table, in table order.
C14_EveryEntryAttempted ==
    bpc \in {"ok", "err", "abort"} =>
        /\ Len(blog) = Len(entries)
        /\ \A i \in 1..Len(entries) : blog[i].name = entries[i].name

----------------------------------------------------------------------------
(* Sprite sheets, read off the bytes of the resource *)

\* the position of the table of contents, its k-th offset (k from 0) and the
\* number of sub-resources its first offset announces
TocPosition == sdata[1] + 256 * sdata[2]
TocWord(k) == sdata[TocPosition + 2 * k + 1] + 256 * sdata[TocPosition + 2 * k + 2]
TocCount == TocWord(0) \div 2

\* the first offset is there, and the table it announces has no
\* sub-resource, too many, an offset beyond the data, or offsets that do not
\* increase
MalformedToc ==
    /\ Len(sdata) >= 2
    /\ TocPosition + 2 <= Len(sdata)
    /\ \/ TocCount = 0
       \/ TocCount > 1000
       \/ /\ TocPosition + 2 * TocCount <= Len(sdata)
          /\ \/ \E k \in 0..(TocCount - 1) : TocWord(k) >= Len(sdata)
             \/ \E k \in 0..(TocCount - 2) : TocWord(k) >= TocWord(k + 1)

\* C15: on a sprite sheet with a malformed table of contents neither
\* extract_sprites nor SpriteSheet::new aborts the process or succeeds: each
\* returns an error value.
C15_MalformedTocIsError ==
    MalformedToc =>
        /\ spc \in {"start", "err"}
        /\ ssheet.res \in {"none", "err"}

\* the width and height of sub-resource k
SubPos(k) == TocPosition + TocWord(k)
SubWidth(k) == (sdata[SubPos(k) + 1] + 256 * sdata[SubPos(k) + 2]) % 512
SubHeight(k) == sdata[SubPos(k) + 3]
BadGeometry(k) == ~(SubWidth(k) \in 1..320) \/ ~(SubHeight(k) \in 1..200)

\* C16: when extract_sprites has returned Ok, every sub-resource with a
\* width outside 1..320 or a height outside 1..200 was skipped and no frame
\* was drawn for it, every other sub-resource was drawn, and the value
\* returned carries the number of skipped sub-resources.
C16_SkipsAreCounted ==
    spc = "ok" =>
        /\ Len(slog) = TocCount
        /\ \A k \in 0..(TocCount - 1) :
              /\ slog[k + 1].kind = IF BadGeometry(k) THEN "skipped" ELSE "drawn"
              /\ BadGeometry(k) => slog[k + 1].frame = <<>>
        /\ sret = [kind |-> "Ok",
                   value |-> <<Cardinality({k \in 0..(TocCount - 1) : BadGeometry(k)})>>]

----------------------------------------------------------------------------
(* The bit queue, read off the bytes under the cursor *)

\* the little-endian word at cursor position p, and bit k of a word
WordAt(p) == qsrc[p + 1] + 256 * qsrc[p + 2]
BitOf(word, k) == (word \div (2 ^ k)) % 2

\* C17: after every call of read_bit that returns, whatever byte and word
\* reads came between the calls: the call fetched a word exactly when it is
\* the 1st, 17th, 33rd ... call, and then the word is the little-endian word
\* at the cursor, the cursor moves past it and the queue is 0x8000 | (W >> 1);
\* the bit returned by the call after 16 * j + k calls is bit k of the word
\* fetched last; and the queue is not zero.
C17_BitQueue ==
    /\ qlast.op = "bit" =>
          /\ qlast.moved <=> (qn - 1) % 16 = 0
          /\ qlast.moved => /\ qrd.pos = qfrom + 2
                            /\ qrd.queue = 32768 + (WordAt(qfrom) \div 2)
          /\ qlast.v = BitOf(WordAt(qfrom), (qn - 1) % 16)
    /\ qn > 0 => qrd.queue # 0

\* the 33rd call has fetched the third word, after byte reads in between
C17_Witness ==
    /\ qn = 33
    /\ qlast.op = "bit"
    /\ qlast.moved
    /\ qfrom > 4

----------------------------------------------------------------------------
(* The commands of a packed stream, read off the bytes at the decoder's    *)
(* position                                                                *)

\* the payload of the resource being decoded
Packed == SubSeq(data, 7, Len(data))

\* the control bits still held by a queue: those below its highest set bit,
\* lowest first
RECURSIVE QueueBits(_)
QueueBits(q) == IF q <= 1 THEN <<>> ELSE <<q % 2>> \o QueueBits(q \div 2)

\* the 16 bits of the control word at position p, lowest first
ControlBits(p) ==
    IF p + 2 <= Len(Packed)
    THEN [j \in 1..16 |-> ((Packed[p + 1] + 256 * Packed[p + 2]) \div (2 ^ (j - 1))) % 2]
    ELSE <<>>

\* the control bits the next command will see, and the cursor once it has
\* seen n of them
Upcoming == QueueBits(rd.queue) \o ControlBits(rd.pos)
CursorAfter(n) == IF Len(QueueBits(rd.queue)) < n THEN rd.pos + 2 ELSE rd.pos

\* the next command is a long back-reference whose bytes are all there
LongWord == Packed[CursorAfter(2) + 1] + 256 * Packed[CursorAfter(2) + 2]
LongCode == LongWord % 8
LongDistance == 8192 - (LongWord \div 8)
LongCmd ==
    /\ pc = "unhsq"
    /\ Len(Upcoming) >= 2
    /\ Upcoming[1] = 0
    /\ Upcoming[2] = 1
    /\ CursorAfter(2) + (IF LongCode = 0 THEN 3 ELSE 2) <= Len(Packed)
LongLength == IF LongCode = 0 THEN Packed[CursorAfter(2) + 3] ELSE LongCode
LongEnd == CursorAfter(2) + (IF LongCode = 0 THEN 3 ELSE 2)

\* the next command is a short back-reference whose byte is there
ShortCmd ==
    /\ pc = "unhsq"
    /\ Len(Upcoming) >= 4
    /\ Upcoming[1] = 0
    /\ Upcoming[2] = 0
    /\ CursorAfter(4) + 1 <= Len(Packed)
ShortLength == 2 * Upcoming[3] + Upcoming[4]
ShortDist == 256 - Packed[CursorAfter(4) + 1]
ShortEnd == CursorAfter(4) + 1

\* the step appended n bytes, each the byte dist places before it
Appended(n, dist) ==
    /\ w_ofs' = w_ofs + n
    /\ \A k \in 1..n : w'[w_ofs + k] = w'[w_ofs + k - dist]

\* C18: a command with control bits 0, 1 reads a word, and one more byte only
\* when the word's low 3 bits are 0; with a resulting length of 0 decoding
\* ends there, nothing is written and nothing more is read; with any other
\* length the decoder goes on, having copied length + 2 bytes from
\* 8192 - (word >> 3) places back; and no other command ends decoding.
C18_LongAndTerminator ==
    [][/\ LongCmd =>
            /\ pc' # "abort" => rd'.pos = LongEnd
            /\ LongLength = 0 =>
                  /\ pc' = "open"
                  /\ result'.kind = "ok"
                  /\ w' = w
                  /\ w_ofs' = w_ofs
            /\ LongLength # 0 =>
                  /\ pc' \in {"unhsq", "abort"}
                  /\ pc' = "unhsq" => Appended(LongLength + 2, LongDistance)
       /\ (pc = "unhsq" /\ pc' = "open") => (LongCmd /\ LongLength = 0)]_vars

\* two literals, then a long back-reference of distance 2 with the extended
\* length 1, have been decoded
C18_Witness ==
    /\ pc = "unhsq"
    /\ Len(Packed) >= 7
    /\ Packed[1] % 16 = 11
    /\ Packed[5] % 8 = 0
    /\ 8192 - ((Packed[5] + 256 * Packed[6]) \div 8) = 2
    /\ Packed[7] = 1
    /\ rd.pos = 7
    /\ w_ofs = 5

\* C19: a command with control bits 0, 0 reads two more bits b0, b1 and one
\* byte B, copies 2 * b0 + b1 + 2 bytes (2 to 5) from 256 - B places back (1
\* to 256), and never ends decoding.
C19_Short ==
    [][ShortCmd =>
          /\ ShortLength + 2 \in 2..5
          /\ ShortDist \in 1..256
          /\ pc' \in {"unhsq", "abort"}
          /\ pc' = "unhsq" =>
                /\ rd'.pos = ShortEnd
                /\ Appended(ShortLength + 2, ShortDist)]_vars

\* two literals, then a short back-reference with b0 = 0, b1 = 1 and
\* distance 2, have been decoded
C19_Witness ==
    /\ pc = "unhsq"
    /\ Len(Packed) >= 5
    /\ Packed[1] % 64 = 35
    /\ Packed[5] = 254
    /\ rd.pos = 5
    /\ w_ofs = 5

\* the next command is a back-reference that copies: its length code and
\* its distance
BackRef == (LongCmd /\ LongLength # 0) \/ ShortCmd
RefLength == IF ShortCmd THEN ShortLength ELSE LongLength
RefDistance == IF ShortCmd THEN ShortDist ELSE LongDistance

\* C20: a back-reference of length L and distance D that the decoder
\* completes moves the write position p by L + 2 and leaves every other byte
\* of the output alone; the k-th byte it appends is the byte at p + k - D
\* when it is copied, which is a byte of the output before the command for
\* k < D and a byte appended by this command otherwise, so that the last D
\* bytes before p are repeated with period D.
C20_Copy ==
    [][(BackRef /\ pc' = "unhsq") =>
          /\ w_ofs' = w_ofs + RefLength + 2
          /\ Len(w') = Len(w)
          /\ \A k \in 0..(RefLength + 1) :
                /\ w'[w_ofs + k + 1] = IF k < RefDistance
                                       THEN w[w_ofs + k - RefDistance + 1]
                                       ELSE w'[w_ofs + k - RefDistance + 1]
                /\ w'[w_ofs + k + 1] = w[w_ofs - RefDistance + (k % RefDistance) + 1]
          /\ \A i \in 1..Len(w) :
                (i <= w_ofs \/ i > w_ofs + RefLength + 2) => w'[i] = w[i]]_vars

\* a literal, then a short back-reference of distance 1 that copies 4 bytes:
\* the source and the destination overlap
C20_Witness ==
    /\ pc = "unhsq"
    /\ Len(Packed) >= 4
    /\ Packed[1] % 32 = 9
    /\ Packed[3] # 0
    /\ Packed[4] = 255
    /\ rd.pos = 4
    /\ w_ofs = 5
    /\ \A k \in 1..5 : w[k] = Packed[3]

----------------------------------------------------------------------------
(* Run-length sprites *)

\* the row pitch from the header fields
RowPitch ==
    IF usprite.pal_offset < 254 THEN 2 * ((usprite.width + 3) \div 4) ELSE usprite.width

\* C21: while unrle runs and when it has returned Ok, every row begun so far
\* began at its row's offset r * pitch, nothing is written beyond the end of
\* the current row, and the buffer has exactly height * pitch bytes; and the
\* rows of decompress_4bpp_rle begin at r * pitch as well.
C21_RowsSeparate ==
    /\ upc \in {"run", "ok"} =>
          /\ \A r \in 1..Len(ustarts) : ustarts[r] = (r - 1) * RowPitch
          /\ udpos <= Len(ustarts) * RowPitch
          /\ Len(ubuf) = usprite.height * RowPitch
    /\ \A r \in 1..Len(ualt.starts) :
          ualt.starts[r] = (r - 1) * 2 * ((usprite.width + 3) \div 4)

\* the command byte at the cursor of rle_src and the byte after it
RleCmd == usprite.data[uspos + 1]
RleArg == usprite.data[uspos + 2]

\* the step wrote n bytes at the position of rle_dst, the k-th being
\* at(k), and changed no byte before them
RleAppended(n, at(_)) ==
    /\ udpos' = udpos + n
    /\ \A k \in 1..n : ubuf'[udpos + k] = at(k)
    /\ \A i \in 1..udpos : ubuf'[i] = ubuf[i]

RleRepeated(k) == RleArg
RleCopied(k) == usprite.data[uspos + 1 + k]

\* C22: a command byte c of 128..255 followed by a byte consumes both and
\* appends 257 - c copies (2 to 129) of the byte; a command byte c of 0..127
\* followed by c + 1 bytes consumes them and appends them (1 to 128) as they
\* are; whatever the bit depth of the sprite.  (A step that leaves ualt
\* alone is a step of unrle.)
C22_Commands ==
    [][/\ (upc = "run" /\ ualt' = ualt /\ uspos + 2 <= Len(usprite.data) /\ RleCmd >= 128) =>
            /\ 257 - RleCmd \in 2..129
            /\ uspos' = uspos + 2
            /\ RleAppended(257 - RleCmd, RleRepeated)
       /\ (upc = "run" /\ ualt' = ualt /\ uspos + 1 <= Len(usprite.data) /\ RleCmd < 128
             /\ uspos + 1 + RleCmd + 1 <= Len(usprite.data)) =>
            /\ RleCmd + 1 \in 1..128
            /\ uspos' = uspos + 1 + RleCmd + 1
            /\ RleAppended(RleCmd + 1, RleCopied)]_vars

\* a repeat of 2 bytes and a literal run of 2 bytes have filled the one row
\* of a sprite of 4 bits per pixel
C22_Witness ==
    /\ upc = "ok"
    /\ usprite.pal_offset < 254
    /\ usprite.data = <<255, 5, 1, 8, 6>>
    /\ ubuf = <<5, 5, 8, 6>>

----------------------------------------------------------------------------
(* Palette delta records, read off the bytes at the cursor *)

RecOffset == pdata[ppos + 1]
RecCount == pdata[ppos + 2]
RecTriples == IF RecCount = 0 THEN 256 ELSE RecCount

\* the loop is about to read a record whose two bytes are there
RecordAhead == ppc = "loop" /\ ppos + 2 <= Len(pdata)

\* the j-th byte (0, 1, 2) of the i-th triple (from 0) after the record head
TripleByte(i, j) == pdata[ppos + 2 + 3 * i + j + 1]

\* C23: a record (1, 0) skips the 3 bytes after it and changes no entry; a
\* record (0xFF, 0xFF) ends the loop with no entry changed and nothing more
\* read; both before count 0 is taken as 256; any other record whose triples
\* are in the stream is never taken for a sentinel, and when the loop goes
\* on after it, its count triples (256 for count 0) have been written to the
\* entries offset, offset + 1, ... in stream order, every other entry is as
\* it was and the cursor is behind the last triple.
C23_Records ==
    [][RecordAhead =>
          /\ (RecOffset = 1 /\ RecCount = 0) =>
                /\ ppc' = "loop"
                /\ ppos' = ppos + 5
                /\ pal' = pal
          /\ (RecOffset = 255 /\ RecCount = 255) =>
                /\ ppc' = "ok"
                /\ ppos' = ppos + 2
                /\ pal' = pal
          /\ (~(RecOffset = 1 /\ RecCount = 0) /\ ~(RecOffset = 255 /\ RecCount = 255)
                /\ ppos + 2 + 3 * RecTriples <= Len(pdata)) =>
                /\ ppc' \in {"loop", "abort"}
                /\ prec' = <<RecOffset, RecTriples>>
                /\ ppc' = "loop" =>
                      /\ ppos' = ppos + 2 + 3 * RecTriples
                      /\ \A i \in 0..(RecTriples - 1) : \A j \in 0..2 :
                            pal'[3 * (RecOffset + i) + j] = TripleByte(i, j)
                      /\ \A e \in 0..767 :
                            (e < 3 * RecOffset \/ e >= 3 * (RecOffset + RecTriples)) =>
                                pal'[e] = pal[e]]_vars

\* a skip record, a record that sets entry 0, and the terminator have been
\* processed
C23_Witness ==
    /\ ppc = "ok"
    /\ Len(pdata) >= 14
    /\ pdata[3] = 1 /\ pdata[4] = 0
    /\ pdata[8] = 0 /\ pdata[9] = 1
    /\ pdata[13] = 255 /\ pdata[14] = 255
    /\ ppos = 14
    /\ pal[0] = pdata[10] /\ pal[0] # 0

\* two runs ended alike: both normally or both not, at the same cursor
\* position, with the same palette
SameOutcome(a, b) ==
    /\ (a.res = "ok") <=> (b.res = "ok")
    /\ a.pos = b.pos
    /\ a.pal = b.pal

\* C24: once the three palette loops have run on one stream from one
\* palette, they have consumed the same bytes and left the same palette.
C24_OneLoop ==
    (eres.sprite # NoLoop /\ eres.update # NoLoop /\ eres.inline # NoLoop) =>
        /\ SameOutcome(eres.sprite, eres.update)
        /\ SameOutcome(eres.sprite, eres.inline)

----------------------------------------------------------------------------
(* Sprite headers *)

\* the width and the embedded palette offset in the four header bytes
HeaderWidth == (gbytes[1] + 256 * gbytes[2]) % 512
HeaderOffset == gbytes[4]

\* C25: the bit depth is 4 for an embedded palette offset below 254 and 8
\* for 254 and 255; with 4 bits per pixel the pitch is 2 * ceil(width / 4),
\* that is an even number of bytes holding the row padded to the next
\* multiple of 4 pixels, and at least ceil(width / 2); with 8 bits per pixel
\* it is width; for every width 0..511.
C25_DepthAndPitch ==
    gres.done =>
        /\ HeaderWidth \in 0..511
        /\ gres.bpp = IF HeaderOffset < 254 THEN 4 ELSE 8
        /\ gres.bpp = 4 =>
              /\ gres.pitch % 2 = 0
              /\ 2 * gres.pitch >= HeaderWidth
              /\ 2 * gres.pitch < HeaderWidth + 4
              /\ \E n \in 0..128 : 4 * n >= HeaderWidth /\ 4 * (n - 1) < HeaderWidth
                                   /\ gres.pitch = 2 * n
        /\ gres.bpp = 8 => gres.pitch = HeaderWidth

\* a sprite of width 5 and palette offset 253 was measured: 4 bytes a row
C25_Witness ==
    /\ gres.done
    /\ HeaderWidth = 5
    /\ HeaderOffset = 253
    /\ gres.pitch = 4

----------------------------------------------------------------------------
(* The palette offset of a draw *)

\* the effective value of a draw with argument arg of a sprite with the
\* embedded offset emb
Effective(arg, emb) == IF arg # 0 THEN arg ELSE emb

\* the 4-bit value of pixel (sx, sy) in the bytes the draw reads
SourceNibble(sx, sy) ==
    LET b == DrawSource[sy * (2 * ((sprite.width + 3) \div 4)) + (sx \div 2) + 1]
    IN  IF sx % 2 = 0 THEN b % 16 ELSE b \div 16

\* the byte of pixel (sx, sy) in the bytes an 8bpp draw reads
SourceByte(sx, sy) == DrawSource[sy * sprite.width + sx + 1]

\* C26: after a draw, whatever its draw-time argument, a sprite with an
\* embedded offset below 254 was drawn by the 4bpp routine and any other by
\* the 8bpp routine.  With e the draw-time argument when it is non-zero and
\* the embedded offset otherwise, every sprite pixel that lands inside the
\* frame holds: in 4bpp, what it held before for a zero nibble and the u8
\* sum c + e for a non-zero nibble c; in 8bpp, the source byte, except that
\* a zero byte leaves the pixel as it was when e is 255.
C26_EffectiveOffset ==
    (dlast.op = "draw" /\ dlast.res = "ok") =>
        LET e == Effective(dlast.a.pal_offset, sprite.pal_offset)
        IN  \A sy \in 0..(sprite.height - 1), sx \in 0..(sprite.width - 1) :
                LET d == Lands(sx, sy)
                    at == d[2] * frame.width + d[1] + 1
                IN  (d[1] < frame.width /\ d[2] < frame.height) =>
                        IF sprite.pal_offset < 254
                        THEN LET c == SourceNibble(sx, sy)
                             IN  /\ c = 0 => frame.data[at] = dlast.before[at]
                                 /\ c # 0 => frame.data[at] = (c + e) % U8
                                 /\ (c # 0 /\ c + e < U8) => frame.data[at] = c + e
                        ELSE LET c == SourceByte(sx, sy)
                             IN  /\ (c # 0 \/ e # 255) => frame.data[at] = c
                                 /\ (c = 0 /\ e = 255) => frame.data[at] = dlast.before[at]

\* a sprite with the embedded offset 16 was drawn with the argument 254:
\* the 4bpp routine wrote its nibble 1 as 255
C26_Witness ==
    /\ dlast.op = "draw"
    /\ dlast.res = "ok"
    /\ sprite.pal_offset = 16
    /\ dlast.a.pal_offset = 254
    /\ dlast.a.x = 0 /\ dlast.a.y = 0 /\ ~dlast.a.flip_x /\ ~dlast.a.flip_y
    /\ SourceNibble(0, 0) = 1
    /\ frame.data[1] = 255

----------------------------------------------------------------------------
(* Back-references and the output written so far *)

\* C27: every back-reference the decoder meets reads only positions that
\* are already written: with p the write position and D the distance, each
\* of the L + 2 bytes comes from p + k - D with 0 <= p + k - D < p + k, the
\* subtraction does not go below zero, and the step does not stop on it.
C27_ReadsWritten ==
    [][(pc = "unhsq" /\ BackRef) =>
          /\ \A k \in 0..(RefLength + 1) :
                /\ 0 <= w_ofs + k - RefDistance
                /\ w_ofs + k - RefDistance < w_ofs + k
          /\ ~(result'.kind = "panic" /\ result'.why \in {"sub_overflow", "index_read"})
      ]_vars

----------------------------------------------------------------------------
(* The write position at the terminator *)

\* C28: when a decompressing read has returned, the decoder having reached
\* the terminator, the write position is the unpacked length of the header:
\* the decoder wrote every byte of the buffer that read returns.
C28_FilledToLength ==
    Decoded =>
        /\ w_ofs = UnpackedField(data)
        /\ w_ofs = Len(result.bytes)

----------------------------------------------------------------------------
(* The colour index of a 4bpp pixel *)

\* C29: in a 4bpp draw the sum of a non-zero nibble c and the effective
\* palette offset fits a byte, c + e <= 255, for every pixel the draw
\* reads, so that the draw never stops on that addition.
C29_SumFits ==
    (dlast.op = "draw" /\ dlast.res # "err" /\ sprite.pal_offset < 254) =>
        /\ \A sy \in 0..(sprite.height - 1), sx \in 0..(sprite.width - 1) :
              (sy * pitch(sprite) + (sx \div 2) < Len(DrawSource)
                  /\ SourceNibble(sx, sy) # 0) =>
                  SourceNibble(sx, sy)
                      + Effective(dlast.a.pal_offset, sprite.pal_offset) < U8
        /\ dlast.res = "panic" => SourceShort

----------------------------------------------------------------------------
(* Termination of the decoder *)

\* what is left to read: the control bits in the queue and the bits of the
\* bytes behind the cursor
Pending == Len(QueueBits(rd.queue)) + 8 * (Len(Packed) - rd.pos)

\* the control bits in the queue once n of the upcoming bits are consumed:
\* the rest of the queue, or the rest of a control word fetched on the way
QueueAfter(n) ==
    LET k == Len(QueueBits(rd.queue))
    IN  SubSeq(Upcoming, n + 1, IF k >= n THEN k ELSE k + 16)

\* C30: unhsq terminates.  Every iteration that does not panic consumes at
\* least one control bit (1 for a literal, 2 for a long and 4 for a short
\* back-reference) and leaves less to read than there was; and the decoder,
\* once called, always comes to its end: it returns at the terminator, or it
\* stops with a panic.
C30_Terminates ==
    /\ [][(pc = "unhsq" /\ pc' \in {"unhsq", "open"}) =>
             /\ \E n \in {1, 2, 4} : QueueBits(rd'.queue) = QueueAfter(n)
             /\ Pending' < Pending
             /\ Pending' >= 0]_vars
    /\ (pc = "unhsq") ~> (pc \in {"open", "abort"})
    /\ [](pc = "abort" => result.kind = "panic")

\* the decoder wrote 3 bytes and more, ran out of input and stopped
C30_Witness ==
    /\ pc = "abort"
    /\ result.via = "unhsq"
    /\ result.kind = "panic"
    /\ result.why = "eof"
    /\ w_ofs >= 3
    /\ Pending < 16

====
